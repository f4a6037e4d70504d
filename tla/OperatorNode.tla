----------------------------- MODULE OperatorNode -----------------------------
(***************************************************************************)
(* One operator: operator/node.ts over the file store of                   *)
(* operator/event-store.ts.  submitEvent is an async function; every await *)
(* on the file system is a point where other requests, or a crash, come in *)
(* between, so each file operation is an action of the request (task) that *)
(* issues it.  A writeFile is two operations, the truncating open and the  *)
(* write; when two requests write one file at once the later write may     *)
(* overlay the earlier one and leave text that does not parse.             *)
(***************************************************************************)
EXTENDS EventLog, FiniteSets

CONSTANTS
   Task,         \* slots for submitEvent calls in progress
   Reader,       \* slots for getItemProof calls in progress
   SigLists,     \* the operatorSignatures lists requests carry
   M,            \* quorum.m
   Attested,     \* authentication events with a valid attestation signature
   OneShot,      \* events submitted here at most once; the others any number of times
   Statuses,     \* the statuses parties are registered with
   MaxPast, MaxFuture,  \* the timestamp window
   MaxNow,       \* bound on the clock
   MaxCrashes    \* bound on crashes

PartyStatus == {"ACTIVE", "SUSPENDED", "REVOKED"}

ASSUME NodeAssumption ==
   /\ SigLists \subseteq Seq([by : STRING, ok : BOOLEAN])
   /\ Attested \subseteq Event
   /\ OneShot \subseteq Event
   /\ Statuses \subseteq PartyStatus
   /\ M \in Nat \ {0} /\ MaxPast \in Nat /\ MaxFuture \in Nat
   /\ MaxNow \in Nat /\ MaxCrashes \in Nat

VARIABLES
   fileSt,    \* [Kind -> [Event -> FileState]]: <id>.json in events/, attestations/
   indexSt,   \* [Kind -> [Item -> FileState]]:  item_<id>.json in those directories
   index,     \* the ids last written whole to that index
   itemSt,    \* [Item -> FileState]: items/<id>.json
   item,      \* the record last written whole to it
   party,     \* manufacturers/ and authenticators/: absent, empty or a status
   task,      \* program counter and locals of each submitEvent call
   reader,    \* program counter and locals of each getItemProof call
   done,      \* the events whose updates have all landed (a history variable)
   accepted,  \* the events answered { accepted: true }
   sent,      \* the OneShot events already submitted
   now,       \* Date.now()
   crashes

disk == <<fileSt, indexSt, index, itemSt, item, party>>
vars == <<disk, task, reader, done, accepted, sent, now, crashes>>

\* saveEvent and saveAttestation are the same code over two directories.
Kind == {"events", "attestations"}
FileState == {"absent", "empty", "mangled", "whole"}
PC == {"idle", "readItem", "readParty", "truncFile", "writeFile", "readIndex",
       "truncIndex", "writeIndex", "reread", "truncItem", "writeItem", "answer"}

Type(e) == Body[e].type

Idle == [pc |-> "idle", ev |-> NoEvent, sigs |-> <<>>, kind |-> "events",
         ids |-> {}, rec |-> NoItem]

NotReading == [pc |-> "idle", item |-> NoItem, rec |-> NoItem, left |-> {}, events |-> {}]

Init ==
   /\ fileSt = [k \in Kind |-> [e \in Event |-> "absent"]]
   /\ indexSt = [k \in Kind |-> [i \in Item |-> "absent"]]
   /\ index = [k \in Kind |-> [i \in Item |-> {}]]
   /\ itemSt = [i \in Item |-> "absent"]
   /\ item = [i \in Item |-> NoItem]
   /\ party = [p \in Party |-> "absent"]
   /\ task = [t \in Task |-> Idle]
   /\ reader = [r \in Reader |-> NotReading]
   /\ done = {} /\ accepted = {}
   /\ sent = {}
   /\ now = 0
   /\ crashes = 0

-----------------------------------------------------------------------------
(* submitEvent, one action per file operation *)

\* validateEventTimestamp
InWindow(e) ==
   /\ Body[e].time <= now + MaxFuture
   /\ now <= Body[e].time + MaxPast

\* verifyQuorum: it counts list entries that verify, whoever signed them.
VerifyQuorum(sigs) ==
   /\ Len(sigs) >= M
   /\ Cardinality({k \in DOMAIN sigs : sigs[k].ok}) >= M

\* What a write leaves behind in a file that is in state st.
Lands(st) == IF st = "empty" THEN {"whole"} ELSE {"whole", "mangled"}

Goto(t, pc) == task' = [task EXCEPT ![t].pc = pc]

\* The call ends with accepted: false or with an exception (status 500).
Refuse(t) == task' = [task EXCEPT ![t] = Idle] /\ UNCHANGED done

\* The last update has landed; the answer is still to be given.
Accept(t) ==
   /\ task' = [task EXCEPT ![t] = [Idle EXCEPT !.pc = "answer", !.ev = task[t].ev]]
   /\ done' = done \cup {task[t].ev}

\* The first read validateEvent issues for an event type.
FirstRead(type) ==
   CASE type = "AUTHENTICATOR_REGISTERED"               -> "truncFile"
     [] type \in {"ITEM_AUTHENTICATED", "ITEM_MINTED"}  -> "readParty"
     [] OTHER                                           -> "readItem"

Submit(t, e, sigs) ==
   /\ task[t].pc = "idle" /\ e \notin sent
   /\ sent' = sent \cup ({e} \cap OneShot)
   /\ IF InWindow(e) /\ (Type(e) = "AUTHENTICATOR_REGISTERED" => VerifyQuorum(sigs))
      THEN task' = [task EXCEPT ![t] =
                      [Idle EXCEPT !.pc = FirstRead(Type(e)), !.ev = e, !.sigs = sigs]]
      ELSE UNCHANGED task
   /\ UNCHANGED <<disk, reader, done, accepted, now, crashes>>

\* await store.getItem in validateEvent
ReadItem(t) ==
   LET i == Body[task[t].ev].item IN
   /\ task[t].pc = "readItem"
   /\ IF itemSt[i] = "whole"
      THEN task' = [task EXCEPT ![t].pc = "readParty", ![t].rec = item[i]] /\ UNCHANGED done
      ELSE Refuse(t)
   /\ UNCHANGED <<disk, reader, accepted, sent, now, crashes>>

\* The party whose file the validation of task t reads.
PartyOf(t) ==
   IF Type(task[t].ev) \in {"ITEM_MINTED", "ITEM_AUTHENTICATED"}
   THEN Body[task[t].ev].party ELSE Body[task[t].rec.mint].party

\* validateEvent without the state machine (a seeded bug).
ValidParty(t) ==
   LET e == task[t].ev  st == party[PartyOf(t)] IN
   CASE Type(e) = "ITEM_MINTED"        -> st = "ACTIVE"
     [] Type(e) = "ITEM_AUTHENTICATED" -> st = "ACTIVE" /\ e \in Attested
     [] OTHER -> st # "empty"

\* The rest of validateEvent, once the manufacturer or authenticator is read.
Valid(t) ==
   LET e == task[t].ev  st == party[PartyOf(t)] IN
   CASE Type(e) = "ITEM_MINTED"        -> st = "ACTIVE"
     [] Type(e) = "ITEM_AUTHENTICATED" -> st = "ACTIVE" /\ e \in Attested
     [] OTHER -> st # "empty" /\ ValidateTransition(task[t].rec, Body[e])

\* The event is answered before it is saved (a seeded bug).
AnswerEarly(t) ==
   /\ task[t].pc = "readParty"
   /\ IF Valid(t) /\ VerifyQuorum(task[t].sigs)
      THEN Goto(t, "truncFile") /\ accepted' = accepted \cup {task[t].ev} /\ UNCHANGED done
      ELSE Refuse(t) /\ UNCHANGED accepted
   /\ UNCHANGED <<disk, reader, sent, now, crashes>>

\* await store.getManufacturer / getAuthenticator, the verdict and verifyQuorum
ReadParty(t) ==
   /\ task[t].pc = "readParty"
   /\ IF Valid(t) /\ VerifyQuorum(task[t].sigs)
      THEN Goto(t, "truncFile") /\ UNCHANGED done
      ELSE Refuse(t)
   /\ UNCHANGED <<disk, reader, accepted, sent, now, crashes>>

\* saveEvent (saveAttestation): writeFile of <id>.json
TruncFile(t) ==
   /\ task[t].pc = "truncFile"
   /\ fileSt' = [fileSt EXCEPT ![task[t].kind][task[t].ev] = "empty"]
   /\ Goto(t, "writeFile")
   /\ UNCHANGED <<indexSt, index, itemSt, item, party, reader, done, accepted, sent, now, crashes>>

WriteFile(t) ==
   /\ task[t].pc = "writeFile"
   /\ \E st \in Lands(fileSt[task[t].kind][task[t].ev]) :
         fileSt' = [fileSt EXCEPT ![task[t].kind][task[t].ev] = st]
   /\ Goto(t, "readIndex")
   /\ UNCHANGED <<indexSt, index, itemSt, item, party, reader, done, accepted, sent, now, crashes>>

\* The record of a mint starts without the manufacturer's event (a seeded bug).
FreshRecord(e) == [Minted(e) EXCEPT !.height = 0]

\* The ItemState literal of updateItemState.
NewRecord(e) == Minted(e)

\* What runs between the end of saveEvent or saveAttestation and the next
\* file operation: the branches of updateItemState that do not read.
AfterSave(t) ==
   LET e == task[t].ev IN
   IF task[t].kind = "attestations" \/ Type(e) = "AUTHENTICATOR_REGISTERED"
   THEN Accept(t)
   ELSE /\ UNCHANGED done
        /\ CASE Type(e) = "ITEM_AUTHENTICATED" ->
                  task' = [task EXCEPT ![t].pc = "truncFile", ![t].kind = "attestations",
                                       ![t].ids = {}]
             [] Type(e) = "ITEM_MINTED" ->
                  task' = [task EXCEPT ![t].pc = "truncItem", ![t].rec = NewRecord(e),
                                       ![t].ids = {}]
             [] OTHER -> 
                  task' = [task EXCEPT ![t].pc = "reread", ![t].ids = {}]

\* readFile without existsSync: a missing index is an error (a seeded bug).
NoIndexYetFails(st) == FALSE

\* existsSync: without an index the list starts empty.
NoIndexYet(st) == st = "absent"

\* existsSync and readFile of item_<id>.json; nothing to write if it lists e
ReadIndex(t) ==
   LET e == task[t].ev  k == task[t].kind  i == Body[e].item IN
   /\ task[t].pc = "readIndex"
   /\ \/ /\ indexSt[k][i] = "whole" /\ e \in index[k][i]
         /\ AfterSave(t)
      \/ /\ NoIndexYet(indexSt[k][i]) \/ (indexSt[k][i] = "whole" /\ e \notin index[k][i])
         /\ task' = [task EXCEPT ![t].pc = "truncIndex",
                        ![t].ids = IF indexSt[k][i] = "whole" THEN index[k][i] ELSE {}]
         /\ UNCHANGED done
      \/ /\ indexSt[k][i] # "whole" /\ ~NoIndexYet(indexSt[k][i])
         /\ Refuse(t)
   /\ UNCHANGED <<disk, reader, accepted, sent, now, crashes>>

TruncIndex(t) ==
   /\ task[t].pc = "truncIndex"
   /\ indexSt' = [indexSt EXCEPT ![task[t].kind][Body[task[t].ev].item] = "empty"]
   /\ Goto(t, "writeIndex")
   /\ UNCHANGED <<fileSt, index, itemSt, item, party, reader, done, accepted, sent, now, crashes>>

\* The index is written with the new id only (a seeded bug).
OnlyNew(ids, e) == {e}

\* eventIds.push(eventId)
Appended(ids, e) == ids \cup {e}

WriteIndex(t) ==
   LET e == task[t].ev  k == task[t].kind  i == Body[e].item IN
   /\ task[t].pc = "writeIndex"
   /\ \E st \in Lands(indexSt[k][i]) :
         /\ indexSt' = [indexSt EXCEPT ![k][i] = st]
         /\ index' = IF st = "whole"
                     THEN [index EXCEPT ![k][i] = Appended(task[t].ids, e)] ELSE index
   /\ AfterSave(t)
   /\ UNCHANGED <<fileSt, itemSt, item, party, reader, accepted, sent, now, crashes>>

\* updateItemState: the item is read again and applyEvent validates again,
\* throwing if the item has moved on since validateEvent read it.
Reread(t) ==
   LET e == task[t].ev  i == Body[e].item IN
   /\ task[t].pc = "reread"
   /\ \/ itemSt[i] = "absent" /\ Accept(t)
      \/ /\ itemSt[i] = "whole" /\ ValidateTransition(item[i], Body[e])
         /\ task' = [task EXCEPT ![t].pc = "truncItem",
                                 ![t].rec = ApplyEvent(item[i], e, Body[e])]
         /\ UNCHANGED done
      \/ /\ \/ itemSt[i] \in {"empty", "mangled"}
            \/ itemSt[i] = "whole" /\ ~ValidateTransition(item[i], Body[e])
         /\ Refuse(t)
   /\ UNCHANGED <<disk, reader, accepted, sent, now, crashes>>

\* The item's file is reserved by an existing but unwritten file (a seeded bug).
OpenWhole == "whole"

\* writeFile opens with O_TRUNC.
OpenTruncated == "empty"

\* saveItem: writeFile of items/<id>.json
TruncItem(t) ==
   /\ task[t].pc = "truncItem"
   /\ itemSt' = [itemSt EXCEPT ![task[t].rec.item] = OpenTruncated]
   /\ Goto(t, "writeItem")
   /\ UNCHANGED <<fileSt, indexSt, index, item, party, reader, done, accepted, sent, now, crashes>>

WriteItem(t) ==
   LET i == task[t].rec.item IN
   /\ task[t].pc = "writeItem"
   /\ \E st \in Lands(itemSt[i]) :
         /\ itemSt' = [itemSt EXCEPT ![i] = st]
         /\ item' = IF st = "whole" THEN [item EXCEPT ![i] = task[t].rec] ELSE item
   /\ Accept(t)
   /\ UNCHANGED <<fileSt, indexSt, index, party, reader, accepted, sent, now, crashes>>

\* submitEvent returns { accepted: true }, a turn of the event loop after the
\* last file operation has completed.
Answer(t) ==
   /\ task[t].pc = "answer"
   /\ task' = [task EXCEPT ![t] = Idle]
   /\ accepted' = accepted \cup {task[t].ev}
   /\ UNCHANGED <<disk, reader, done, sent, now, crashes>>
-----------------------------------------------------------------------------
(* getItemProof, the registration calls, the clock and crashes *)

Reading(r) == reader[r].pc \in {"readIndex", "readFiles"}

\* await store.getItem: null if there is no file, an exception if it is torn
ReadProofItem(r, i) ==
   /\ ~Reading(r)
   /\ itemSt[i] \in {"absent", "whole"}
   /\ reader' = [reader EXCEPT ![r] = [NotReading EXCEPT !.pc = "readIndex", !.item = i,
                    !.rec = IF itemSt[i] = "whole" THEN item[i] ELSE NoItem]]
   /\ UNCHANGED <<disk, task, done, accepted, sent, now, crashes>>

\* getEventsByItem: the list of ids; a torn file is an exception
ReadProofIndex(r) ==
   LET i == reader[r].item  st == indexSt["events"][i] IN
   /\ reader[r].pc = "readIndex"
   /\ reader' = [reader EXCEPT ![r] =
         CASE st = "absent" -> [@ EXCEPT !.pc = "done"]
           [] st = "whole"  -> [@ EXCEPT !.pc = "readFiles", !.left = index["events"][i]]
           [] OTHER         -> NotReading]
   /\ UNCHANGED <<disk, task, done, accepted, sent, now, crashes>>

\* await getEvent, in any order of the listed ids: null if there is no file
ReadProofFile(r, e) ==
   LET q == reader[r]  st == fileSt["events"][e] IN
   /\ q.pc = "readFiles" /\ e \in q.left
   /\ reader' = [reader EXCEPT ![r] =
         IF st \in {"empty", "mangled"} THEN NotReading
         ELSE [q EXCEPT !.pc = IF q.left = {e} THEN "done" ELSE "readFiles",
                        !.left = q.left \ {e},
                        !.events = IF st = "whole" THEN q.events \cup {e} ELSE q.events]]
   /\ UNCHANGED <<disk, task, done, accepted, sent, now, crashes>>

\* registerManufacturer / registerAuthenticator: writeFile of the party's file
TruncParty(p) ==
   /\ party[p] # "empty"
   /\ party' = [party EXCEPT ![p] = "empty"]
   /\ UNCHANGED <<fileSt, indexSt, index, itemSt, item, task, reader, done, accepted, sent, now, crashes>>

WriteParty(p, status) ==
   /\ party[p] = "empty"
   /\ party' = [party EXCEPT ![p] = status]
   /\ UNCHANGED <<fileSt, indexSt, index, itemSt, item, task, reader, done, accepted, sent, now, crashes>>

Tick ==
   /\ now < MaxNow
   /\ now' = now + 1
   /\ UNCHANGED <<disk, task, reader, done, accepted, sent, crashes>>

\* The process dies and restarts: the files stay as they are, calls are gone.
Crash ==
   /\ crashes < MaxCrashes
   /\ crashes' = crashes + 1
   /\ task' = [t \in Task |-> Idle]
   /\ reader' = [r \in Reader |-> NotReading]
   /\ UNCHANGED <<disk, done, accepted, sent, now>>

TaskStep(t) ==
   \/ ReadItem(t) \/ ReadParty(t)
   \/ TruncFile(t) \/ WriteFile(t)
   \/ ReadIndex(t) \/ TruncIndex(t) \/ WriteIndex(t)
   \/ Reread(t) \/ TruncItem(t) \/ WriteItem(t) \/ Answer(t)

Next ==
   \/ \E t \in Task, e \in Event, sigs \in SigLists : Submit(t, e, sigs)
   \/ \E t \in Task : TaskStep(t)
   \/ \E r \in Reader, i \in Item : ReadProofItem(r, i)
   \/ \E r \in Reader : ReadProofIndex(r)
   \/ \E r \in Reader, e \in Event : ReadProofFile(r, e)
   \/ \E p \in Party : TruncParty(p)
   \/ \E p \in Party, s \in Statuses : WriteParty(p, s)
   \/ Tick
   \/ Crash

Spec == Init /\ [][Next]_vars

\* Each file operation completes: the event loop and the thread pool run on.
FairSpec == Spec /\ \A t \in Task : WF_vars(TaskStep(t))
-----------------------------------------------------------------------------
(* Properties *)

TaskRecord ==
   [pc : PC, ev : Event \cup {NoEvent}, sigs : SigLists \cup {<<>>}, kind : Kind,
    ids : SUBSET Event, rec : ItemRecord \cup {NoItem}]

ReaderRecord ==
   [pc : {"idle", "readIndex", "readFiles", "done"}, item : Item \cup {NoItem},
    rec : ItemRecord \cup {NoItem}, left : SUBSET Event, events : SUBSET Event]

\* The locals a request has at its program counter.
TaskOK(q) ==
   /\ q.pc # "idle" \/ q.kind = "attestations" => q.ev \in Event
   /\ q.pc \in {"truncItem", "writeItem"} => q.rec \in ItemRecord

\* Every variable has its type, a request in progress has the locals its next
\* operation uses, and a whole item file holds a record.
TypeOK ==
   /\ fileSt \in [Kind -> [Event -> FileState]]
   /\ indexSt \in [Kind -> [Item -> FileState]]
   /\ index \in [Kind -> [Item -> SUBSET Event]]
   /\ itemSt \in [Item -> FileState]
   /\ item \in [Item -> ItemRecord \cup {NoItem}]
   /\ party \in [Party -> PartyStatus \cup {"absent", "empty"}]
   /\ task \in [Task -> TaskRecord]
   /\ reader \in [Reader -> ReaderRecord]
   /\ \A t \in Task : TaskOK(task[t])
   /\ \A i \in Item : itemSt[i] = "whole" => item[i] # NoItem
   /\ \A r \in Reader : reader[r].pc = "readIndex" => reader[r].item \in Item
   /\ done \subseteq Event /\ accepted \subseteq Event
   /\ sent \subseteq OneShot
   /\ now \in 0..MaxNow
   /\ crashes \in 0..MaxCrashes

\* e has a file in events/, readable or torn.
Stored(e) == fileSt["events"][e] # "absent"

\* Whatever requests overlap and whenever the process dies, an item record on
\* disk is exactly what replaying its hash chain from its last event gives -
\* state, owner, height and provenance - and that last event is in the store.
\* (updateItemState and saveItem work from a record read two writes earlier.)
ItemIsReplay ==
   \A i \in Item : item[i] # NoItem =>
      /\ item[i].item = i
      /\ item[i] = Replay[item[i].last]
      /\ Stored(item[i].last)

\* The store is closed under the hash chain: saveEvent runs before the item is
\* updated and may never be followed by that update, yet every chain event it
\* stored replays legally and its predecessor was stored before it.
StoredEventsReplay ==
   \A e \in Event : Stored(e) /\ Type(e) \in ChainType =>
      Replay[e] # NoItem /\ Stored(Body[e].prev)

\* What saveEvent and saveAttestation leave of an event.
Saved(e) ==
   /\ Stored(e)
   /\ indexSt["events"][Body[e].item] # "absent"
   /\ Type(e) = "ITEM_AUTHENTICATED" => fileSt["attestations"][e] # "absent"

\* An event answered accepted: true has its file, its attestation if it is an
\* authentication event, and has been indexed.
AcceptedIsStored == \A e \in accepted : Saved(e)

\* rec is a record some stored event's chain leads to.
Replayed(rec) == rec # NoItem /\ rec = Replay[rec.last] /\ Stored(rec.last)

\* What a request has established by the time it reaches its program counter.
TaskSafe(t) ==
   LET q == task[t]  e == q.ev IN
   /\ q.pc = "readParty" /\ Type(e) \notin {"ITEM_MINTED", "ITEM_AUTHENTICATED"}
         => Replayed(q.rec)
   /\ q.pc \notin {"idle", "readItem", "readParty"} /\ Type(e) \in ChainType
         => Replay[e] # NoItem /\ Stored(Body[e].prev)
   /\ q.kind = "attestations" \/ q.pc \notin {"idle", "readItem", "readParty", "truncFile"}
         => Stored(e)
   /\ q.kind = "attestations" \/ q.pc \in {"writeIndex", "reread", "truncItem", "writeItem"}
         => indexSt["events"][Body[e].item] # "absent"
   /\ q.kind = "attestations" /\ q.pc # "truncFile" => fileSt["attestations"][e] # "absent"
   /\ q.kind = "attestations" =>
         /\ q.pc \in {"truncFile", "writeFile", "readIndex", "truncIndex", "writeIndex"}
         /\ Type(e) = "ITEM_AUTHENTICATED"
   /\ q.pc \in {"reread", "truncItem", "writeItem"} => Type(e) # "ITEM_AUTHENTICATED"
   /\ q.pc \in {"truncItem", "writeItem"} =>
         q.rec = Replay[e] /\ q.rec.last = e /\ q.rec.item = Body[e].item
   /\ q.pc = "answer" => e \in done

\* What is answered is done, and what is done is saved.
AnswersAreDone == accepted \subseteq done /\ \A e \in done : Saved(e)

\* The inductive invariant behind the three above.
SafeInv ==
   /\ TypeOK /\ ItemIsReplay /\ StoredEventsReplay /\ AnswersAreDone
   /\ \A t \in Task : TaskSafe(t)

\* Of two events with the same predecessor at most one is answered accepted
\* (SECURITY.md: the first lock is accepted, later attempts are rejected).
NoAcceptedFork ==
   \A e, f \in accepted :
      {Type(e), Type(f)} \subseteq ChainType /\ Body[e].prev = Body[f].prev => e = f

\* No accepted event is ever undone, wherever the process dies: an item that
\* has one has a file, and a record that can be read has in its history every
\* accepted event that goes back to the mint the record goes back to.
AcceptedIsKept ==
   \A e \in accepted : Type(e) \in ChainType \cup {"ITEM_MINTED"} =>
      LET i == Body[e].item IN
      /\ itemSt[i] # "absent"
      /\ itemSt[i] = "whole" /\ item[i].mint \in Ancestors[e] =>
            e \in Ancestors[item[i].last]

\* S holds the predecessor of every chain event in it.
Linked(S) == \A e \in S : Type(e) \in ChainType => Body[e].prev \in S

\* A proof served by getItemProof is self-contained although the record and
\* the events are read at different times: the events lead from the last event
\* of the record, over the previous hashes, back to the mint.
ProofIsComplete ==
   \A r \in Reader : reader[r].pc = "done" /\ reader[r].rec # NoItem =>
      reader[r].rec.last \in reader[r].events /\ Linked(reader[r].events)

\* Between requests, as long as none has died with the process, the events
\* listed for an item, in order of height, form the chain validateEventChain
\* accepts, with the item's last event in it: what a client that scans it checks.
ListedChainIsValid ==
   crashes = 0 /\ (\A t \in Task : task[t].pc = "idle") =>
      \A i \in Item : item[i] # NoItem =>
         \E s \in [1..Cardinality(index["events"][i]) -> index["events"][i]] :
            /\ \A j, k \in DOMAIN s : j < k => Body[s[j]].height < Body[s[k]].height
            /\ ValidEventChain(s, Body)
            /\ item[i].last \in index["events"][i]

\* Without a crash, an event whose file was started is answered accepted:
\* submitEvent never leaves an event saved and its item behind.
SavedIsAccepted == \A e \in Event : Stored(e) ~> e \in accepted \/ crashes > 0

\* With one request at a time a node is the atomic register of OwnershipRegister,
\* crashes included: an event takes effect, whole or not at all, when the record
\* of its item lands, and is answered after that, if the process lives to do it.
Register == INSTANCE OwnershipRegister WITH answered <- accepted
IsRegister == Register!Spec
=============================================================================
