--------------------------- MODULE OperatorNetwork ---------------------------
(***************************************************************************)
(* Several operators and a client.  An issuer has an event signed by       *)
(* enough operators (proposeEvent, signEvent), hands it to each operator,  *)
(* itself or through broadcastEvent, in any order, several times or never, *)
(* and clients scan items (client/verifier.ts).  Each operator is the      *)
(* register of OwnershipRegister, which a node that serves one submission  *)
(* at a time implements.  Manufacturers are registered and active at every *)
(* operator, and an attestation or a late event may always be refused.     *)
(***************************************************************************)
EXTENDS EventLog, FiniteSets

CONSTANTS
   Operator,
   M,           \* quorum.m, of the nodes and of the client
   OneShot      \* events delivered to an operator at most once

ASSUME NetworkAssumption ==
   /\ IsFiniteSet(Operator)
   /\ M \in Nat \ {0}
   /\ OneShot \subseteq Event

VARIABLES
   endorsed,  \* events that carry M valid signatures
   item,      \* [Operator -> [Item -> record or NoItem]]
   log,       \* [Operator -> the events it stores]
   got,       \* [Item -> [Operator -> what a scan of the item has heard]]
   seen,      \* the last event of the record a scan last found consensus on
   verdict    \* what the last scan of the item returned

vars == <<endorsed, item, log, got, seen, verdict>>

Verdict == {"none", "no_consensus", "no_manufacturer", "bad_chain",
            "bad_signatures", "authentic"}

Silence == [st |-> "waiting", rec |-> NoItem, events |-> {}]

Init ==
   /\ endorsed = {}
   /\ item = [o \in Operator |-> [i \in Item |-> NoItem]]
   /\ log = [o \in Operator |-> {}]
   /\ got = [i \in Item |-> [o \in Operator |-> Silence]]
   /\ seen = [i \in Item |-> NoEvent]
   /\ verdict = [i \in Item |-> "none"]
-----------------------------------------------------------------------------
(* Operators                                                               *)

\* proposeEvent and signEvent read nothing about the item and remember nothing:
\* signEvent looks at the event's own hash alone.  So the signatures of an event
\* are collected in one step, and no event is ever refused one.
Endorse(e) ==
   /\ endorsed' = endorsed \cup {e}
   /\ UNCHANGED <<item, log, got, seen, verdict>>

Store(o, e) == log' = [log EXCEPT ![o] = @ \cup {e}]

\* verifyQuorum
Verified(e) == e \in endorsed

\* submitEvent at o: validateEvent, verifyQuorum, saveEvent, saveItem.
AcceptMint(o, e) ==
   /\ Body[e].type = "ITEM_MINTED"
   /\ item' = [item EXCEPT ![o][Body[e].item] = Minted(e)]
   /\ Store(o, e)

AcceptChain(o, e) ==
   LET i == Body[e].item IN
   /\ item[o][i] # NoItem
   /\ ValidateTransition(item[o][i], Body[e])
   /\ item' = [item EXCEPT ![o][i] = ApplyEvent(item[o][i], e, Body[e])]
   /\ Store(o, e)

AcceptNote(o, e) ==
   /\ Body[e].type \in {"ITEM_AUTHENTICATED", "AUTHENTICATOR_REGISTERED"}
   /\ Store(o, e)
   /\ UNCHANGED item

\* A delivery that is refused or lost changes nothing and is not repeated.
Deliver(o, e) ==
   /\ Verified(e)
   /\ e \in OneShot => e \notin log[o]
   /\ AcceptMint(o, e) \/ AcceptChain(o, e) \/ AcceptNote(o, e)
   /\ UNCHANGED <<endorsed, got, seen, verdict>>
-----------------------------------------------------------------------------
(* A client that scans an item again and again                             *)

Hear(i, o, answer) ==
   /\ got[i][o].st = "waiting"
   /\ got' = [got EXCEPT ![i][o] = answer]
   /\ UNCHANGED <<endorsed, item, log, seen, verdict>>

EventsOf(o, i) == {e \in log[o] : Body[e].item = i}

\* queryOperators: an operator answers with its proof,
Answer(i, o) ==
   Hear(i, o, [st |-> "answered", rec |-> item[o][i], events |-> EventsOf(o, i)])

\* or its call fails; then the scan goes on without it.
Unreachable(i, o) == Hear(i, o, [Silence EXCEPT !.st = "failed"])

Answered(i) == {o \in Operator : got[i][o].st = "answered" /\ got[i][o].rec # NoItem}

SameState(r, s) == r.state = s.state /\ r.last = s.last /\ r.height = s.height

Agreeing(i, o) == {p \in Answered(i) : SameState(got[i][p].rec, got[i][o].rec)}

\* One vote less than a quorum is enough (a seeded bug).
AlmostConsensus(i) == {o \in Answered(i) : Cardinality(Agreeing(i, o)) >= M - 1}

\* findConsensusState: the operators whose answer has a quorum of equals.
Consensus(i) == {o \in Answered(i) : Cardinality(Agreeing(i, o)) >= M}

\* The events as getEventsByItem sorts them.
Listing(events) ==
   {s \in [1..Cardinality(events) -> events] :
      /\ \A e \in events : \E k \in DOMAIN s : s[k] = e
      /\ \A j, k \in DOMAIN s : j < k => Body[s[j]].height <= Body[s[k]].height}

\* getManufacturerFromEvents
NamesManufacturer(events) ==
   \E m, r \in events : /\ Body[m].type = "ITEM_MINTED"
                        /\ Body[r].type = "MANUFACTURER_REGISTERED"
                        /\ Body[r].party = Body[m].party

\* scanItem from the consensus on, check by check.
Checked(s, events) ==
   IF ~ NamesManufacturer(events) THEN "no_manufacturer"
   ELSE IF ~ ValidEventChain(s, Body) THEN "bad_chain"
   ELSE IF ~ events \subseteq endorsed THEN "bad_signatures"
   ELSE "authentic"

\* Promise.all waits for every operator, and the scan returns.
Conclude(i) ==
   /\ \A o \in Operator : got[i][o].st # "waiting"
   /\ got' = [got EXCEPT ![i] = [o \in Operator |-> Silence]]
   /\ \/ /\ Consensus(i) = {}
         /\ verdict' = [verdict EXCEPT ![i] = "no_consensus"]
         /\ UNCHANGED seen
      \/ \E o \in Consensus(i) :
            /\ \E s \in Listing(got[i][o].events) :
                  verdict' = [verdict EXCEPT ![i] = Checked(s, got[i][o].events)]
            /\ seen' = [seen EXCEPT ![i] = got[i][o].rec.last]
   /\ UNCHANGED <<endorsed, item, log>>

Next ==
   \/ \E e \in Event : Endorse(e)
   \/ \E o \in Operator, e \in Event : Deliver(o, e)
   \/ \E i \in Item, o \in Operator : Answer(i, o) \/ Unreachable(i, o)
   \/ \E i \in Item : Conclude(i)

Spec == Init /\ [][Next]_vars
-----------------------------------------------------------------------------
(* Properties                                                              *)

Answers ==
   [st : {"waiting", "failed", "answered"}, rec : ItemRecord \cup {NoItem},
    events : SUBSET Event]

\* The state has its type, and operators store only events with a quorum
\* behind them (verifyQuorum).
TypeOK ==
   /\ endorsed \subseteq Event
   /\ item \in [Operator -> [Item -> ItemRecord \cup {NoItem}]]
   /\ log \in [Operator -> SUBSET endorsed]
   /\ got \in [Item -> [Operator -> Answers]]
   /\ seen \in [Item -> Event \cup {NoEvent}]
   /\ verdict \in [Item -> Verdict]

\* Two events that move an item and cannot both be in its history.
Rivals(e, f) ==
   /\ e # f
   /\ {Body[e].type, Body[f].type} \subseteq ChainType \cup {"ITEM_MINTED"}
   /\ Body[e].item = Body[f].item
   /\ \/ Body[e].prev = Body[f].prev
      \/ Body[e].type = "ITEM_MINTED" /\ Body[f].type = "ITEM_MINTED"

OneChain(e, f) == e \in Ancestors[f] \/ f \in Ancestors[e]

\* Operators may be behind one another, but the histories they follow part only
\* where two rival events were both given a quorum of signatures: however
\* deliveries are ordered, lost or repeated, operators alone never diverge.
DivergenceIsSigned ==
   \A o, p \in Operator, i \in Item :
      item[o][i] # NoItem /\ item[p][i] # NoItem =>
         \/ OneChain(item[o][i].last, item[p][i].last)
         \/ \E e \in log[o], f \in log[p] : Rivals(e, f) /\ {e, f} \subseteq endorsed

\* Once a scan has found the operators agreed on a state of an item, every later
\* scan that finds them agreed finds that state or one that follows it, although
\* operators lag, fail to answer, or have parted; so a buyer who saw an item
\* locked is never shown a history without that lock.  It needs 2 * M > N.
ScanNeverGoesBack ==
   [][\A i \in Item : seen'[i] # seen[i] /\ seen[i] # NoEvent =>
         seen[i] \in Ancestors[seen'[i]]]_vars

\* Two operators that have both accepted something of an item follow one history.
OperatorsAgree ==
   \A o, p \in Operator, i \in Item :
      item[o][i] # NoItem /\ item[p][i] # NoItem =>
         OneChain(item[o][i].last, item[p][i].last)
=============================================================================
