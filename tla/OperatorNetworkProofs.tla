------------------------ MODULE OperatorNetworkProofs ------------------------
(***************************************************************************)
(* Proofs about OperatorNetwork: its type, that operators diverge only     *)
(* where rival events were signed, and that scans never go back.           *)
(***************************************************************************)
EXTENDS OperatorNetwork, Sums

\* A history is its last event and, unless that is a mint, the history it follows.
LEMMA HistoryStep ==
   /\ Ancestors \in [Event -> SUBSET Event]
   /\ \A e \in Event : Ancestors[e] =
         {e} \cup (IF Body[e].type # "ITEM_MINTED" /\ Body[e].prev \in Event
                  THEN Ancestors[Body[e].prev] ELSE {})
<1>1. Ancestors \in [Event -> SUBSET Event] BY DEF Ancestors
<1>2. ASSUME NEW e \in Event
      PROVE  /\ Ancestors[e] \in Histories /\ e \in Ancestors[e]
             /\ \A s \in Histories : e \in s => Ancestors[e] \subseteq s
  BY DEF Ancestors, Histories
<1>3. ASSUME NEW e \in Event
      PROVE  Ancestors[e] = {e} \cup (IF Body[e].type # "ITEM_MINTED" /\ Body[e].prev \in Event
                                     THEN Ancestors[Body[e].prev] ELSE {})
  <2>1. CASE Body[e].type # "ITEM_MINTED" /\ Body[e].prev \in Event
    <3>1. PICK p \in Event : p = Body[e].prev BY <2>1
    <3>2. {e} \cup Ancestors[p] \in Histories
      BY <1>1, <1>2, <2>1, <3>1 DEF Histories
    <3>3. p \in Ancestors[e] BY <1>2, <2>1, <3>1 DEF Histories
    <3>4. QED BY <1>2, <2>1, <3>1, <3>2, <3>3
  <2>2. CASE ~(Body[e].type # "ITEM_MINTED" /\ Body[e].prev \in Event)
    <3>1. {e} \in Histories BY <2>2 DEF Histories
    <3>2. QED BY <1>2, <2>2, <3>1
  <2>3. QED BY <2>1, <2>2
<1>4. QED BY <1>1, <1>3

\* What an operator has stored of the history its record of i ends: the mint it
\* starts with and, of each earlier event, the event that followed it.
Rooted(o, i) ==
   item[o][i] # NoItem =>
      /\ \E m \in log[o] \cap Ancestors[item[o][i].last] :
            Body[m].type = "ITEM_MINTED" /\ Body[m].item = i
      /\ \A y \in Ancestors[item[o][i].last] \ {item[o][i].last} :
            \E c \in log[o] \cap Ancestors[item[o][i].last] :
               /\ Body[c].prev = y /\ Body[c].item = i
               /\ Body[c].type \in ChainType

HistoriesRooted == \A o \in Operator, i \in Item : Rooted(o, i)

\* Two operators are one behind the other, or parted at signed rivals.
Apart(o, p, i) ==
   item[o][i] # NoItem /\ item[p][i] # NoItem =>
      \/ OneChain(item[o][i].last, item[p][i].last)
      \/ \E e \in log[o], f \in log[p] : Rivals(e, f) /\ {e, f} \subseteq endorsed

\* Types of the records that updateItemState builds.
LEMMA MintedType ==
   ASSUME NEW e \in Event
   PROVE  Minted(e) \in ItemRecord /\ Minted(e).last = e
BY BodyAssumption DEF Minted, MintedItem, ItemRecord, EventBody, ItemState

\* The record an event of the chain leads to, and what it takes for it.
LEMMA AppliedType ==
   ASSUME NEW e \in Event, NEW r \in ItemRecord, ValidateTransition(r, Body[e])
   PROVE  /\ ApplyEvent(r, e, Body[e]) \in ItemRecord
          /\ ApplyEvent(r, e, Body[e]).last = e
          /\ Body[e].prev = r.last
          /\ Body[e].type # "ITEM_MINTED"
          /\ Body[e].type \in ChainType
<1>1. r.state \in ItemState /\ Body[e].type \in Allowed[r.state]
   BY DEF ItemRecord, ValidateTransition, IsValidTransition
<1>2. Body[e].type \in ChainType
   BY <1>1 DEF Allowed, ItemState, ChainType
<1>3. NextState(Body[e].type) \in ItemState
   BY <1>2 DEF NextState, ItemState, ChainType
<1>4. Body[e].height \in Nat /\ Body[e].wallet \in Wallet
   BY BodyAssumption DEF EventBody
<1>5. ApplyEvent(r, e, Body[e]) \in ItemRecord /\ ApplyEvent(r, e, Body[e]).last = e
   BY <1>3, <1>4 DEF ApplyEvent, ItemRecord
<1> QED BY <1>2, <1>5 DEF ValidateTransition, ChainType
-----------------------------------------------------------------------------
(* ReplayAssumption asks for nothing and leaves nothing open: the record of  *)
(* every event's history exists and is one, whatever the events say, and     *)
(* even if their previous hashes formed a cycle.                             *)

\* What ReplayAssumption asks of Replay.
Replays(R) ==
   /\ R \in [Event -> ItemRecord \cup {NoItem}]
   /\ \A e \in Event :
        R[e] = IF Body[e].type = "ITEM_MINTED" THEN Minted(e)
               ELSE IF /\ Body[e].type \in ChainType
                       /\ Body[e].prev \in Event
                       /\ R[Body[e].prev] # NoItem
                       /\ ValidateTransition(R[Body[e].prev], Body[e])
                    THEN ApplyEvent(R[Body[e].prev], e, Body[e])
                    ELSE NoItem

LEMMA ReplayReplays == Replays(Replay)
BY ReplayAssumption DEF Replays, Follows

\* How e turns the record r of its predecessor into its own.
Extends(e, r) == Body[e].type \in ChainType /\ ValidateTransition(r, Body[e])

\* Sets of records for each event, with all that histories lead to.
Replayed ==
   {S \in [Event -> SUBSET ItemRecord] : \A e \in Event :
      /\ Body[e].type = "ITEM_MINTED" => Minted(e) \in S[e]
      /\ \A p \in Event, r \in ItemRecord :
            Body[e].prev = p /\ r \in S[p] /\ Extends(e, r) =>
               ApplyEvent(r, e, Body[e]) \in S[e]}

\* The least of them: what histories lead to and nothing else.
Reached == [e \in Event |-> {r \in ItemRecord : \A S \in Replayed : r \in S[e]}]

\* Reached is closed and least.
LEMMA ReachedIsLeast ==
   Reached \in Replayed /\ \A S \in Replayed, e \in Event : Reached[e] \subseteq S[e]
<1>1. Reached \in [Event -> SUBSET ItemRecord]
   BY DEF Reached
<1>2. \A S \in Replayed, e \in Event : Reached[e] \subseteq S[e]
   BY DEF Reached
<1>3. ASSUME NEW e \in Event, Body[e].type = "ITEM_MINTED" PROVE Minted(e) \in Reached[e]
   BY <1>3, MintedType DEF Reached, Replayed
<1>4. ASSUME NEW e \in Event, NEW p \in Event, NEW r \in ItemRecord,
             Body[e].prev = p, r \in Reached[p], Extends(e, r)
      PROVE  ApplyEvent(r, e, Body[e]) \in Reached[e]
   <2>1. ApplyEvent(r, e, Body[e]) \in ItemRecord
      BY <1>4, AppliedType DEF Extends
   <2>2. ASSUME NEW S \in Replayed PROVE ApplyEvent(r, e, Body[e]) \in S[e]
      <3>1. r \in S[p]
         BY <1>2, <1>4
      <3> QED BY <1>4, <3>1 DEF Replayed
   <2> QED BY <2>1, <2>2 DEF Reached
<1> QED BY <1>1, <1>2, <1>3, <1>4 DEF Replayed

\* A record is reached by a mint, or by an event that extends a reached record.
LEMMA ReachedHow ==
   ASSUME NEW e \in Event, NEW r \in Reached[e]
   PROVE  \/ Body[e].type = "ITEM_MINTED" /\ r = Minted(e)
          \/ /\ Body[e].prev \in Event
             /\ \E s \in Reached[Body[e].prev] :
                   Extends(e, s) /\ r = ApplyEvent(s, e, Body[e])
<1> DEFINE How(f, x) ==
              \/ Body[f].type = "ITEM_MINTED" /\ x = Minted(f)
              \/ /\ Body[f].prev \in Event
                 /\ \E s \in Reached[Body[f].prev] :
                       Extends(f, s) /\ x = ApplyEvent(s, f, Body[f])
           S == [f \in Event |-> {x \in Reached[f] : How(f, x)}]
<1>1. Reached \in [Event -> SUBSET ItemRecord]
   BY DEF Reached
<1>2. ASSUME NEW f \in Event, Body[f].type = "ITEM_MINTED" PROVE Minted(f) \in S[f]
   BY <1>2, ReachedIsLeast DEF Replayed
<1>3. ASSUME NEW f \in Event, NEW p \in Event, NEW x \in ItemRecord,
             Body[f].prev = p, x \in S[p], Extends(f, x)
      PROVE  ApplyEvent(x, f, Body[f]) \in S[f]
   <2>1. x \in Reached[p] /\ ApplyEvent(x, f, Body[f]) \in Reached[f]
      BY <1>3, ReachedIsLeast DEF Replayed
   <2> QED BY <1>3, <2>1
<1>4. S \in Replayed
   <2>1. S \in [Event -> SUBSET ItemRecord]
      BY <1>1
   <2> HIDE DEF S
   <2> QED BY <1>2, <1>3, <2>1 DEF Replayed
<1>5. r \in S[e]
   <2> HIDE DEF S
   <2> QED BY <1>4, ReachedIsLeast
<1> QED BY <1>5

\* A mint extends nothing, so an event reaches at most one record.
LEMMA ReachedOnce ==
   ASSUME NEW e \in Event, NEW r \in Reached[e], NEW s \in Reached[e] PROVE r = s
<1> DEFINE S == [f \in Event |-> {x \in Reached[f] : \A y \in Reached[f] : y = x}]
<1>1. Reached \in [Event -> SUBSET ItemRecord]
   BY DEF Reached
<1>2. ASSUME NEW f \in Event, Body[f].type = "ITEM_MINTED" PROVE Minted(f) \in S[f]
   <2>1. \A y \in Reached[f] : y = Minted(f)
      BY <1>2, ReachedHow DEF Extends, ChainType
   <2> QED BY <1>2, <2>1, ReachedIsLeast DEF Replayed
<1>3. ASSUME NEW f \in Event, NEW p \in Event, NEW x \in ItemRecord,
             Body[f].prev = p, x \in S[p], Extends(f, x)
      PROVE  ApplyEvent(x, f, Body[f]) \in S[f]
   <2>1. x \in Reached[p] /\ ApplyEvent(x, f, Body[f]) \in Reached[f]
      BY <1>3, ReachedIsLeast DEF Replayed
   <2>2. ASSUME NEW y \in Reached[f] PROVE y = ApplyEvent(x, f, Body[f])
      BY <1>3, <2>2, ReachedHow DEF Extends, ChainType
   <2> QED BY <2>1, <2>2
<1>4. S \in Replayed
   <2>1. S \in [Event -> SUBSET ItemRecord]
      BY <1>1
   <2> HIDE DEF S
   <2> QED BY <1>2, <1>3, <2>1 DEF Replayed
<1>5. r \in S[e]
   <2> HIDE DEF S
   <2> QED BY <1>4, ReachedIsLeast
<1> QED BY <1>5

\* ReplayAssumption can be met, for any events: its equation has a solution.
THEOREM ReplayExists == \E R : Replays(R)
<1> DEFINE R == [e \in Event |-> IF Reached[e] = {} THEN NoItem
                                 ELSE CHOOSE r \in Reached[e] : TRUE]
<1>1. Reached \in [Event -> SUBSET ItemRecord]
   BY DEF Reached
<1>2. ASSUME NEW e \in Event
      PROVE  /\ Reached[e] = {} => R[e] = NoItem
             /\ Reached[e] # {} => R[e] \in Reached[e]
             /\ R[e] \in ItemRecord \cup {NoItem}
   BY <1>1
<1>3. R \in [Event -> ItemRecord \cup {NoItem}]
   BY <1>2
<1> HIDE DEF R
<1>4. ASSUME NEW e \in Event, NEW r \in Reached[e] PROVE R[e] = r
   BY <1>2, <1>4, ReachedOnce
<1>5. ASSUME NEW e \in Event, R[e] # NoItem PROVE R[e] \in Reached[e] /\ R[e] \in ItemRecord
   BY <1>2, <1>5
<1>6. ASSUME NEW e \in Event
      PROVE R[e] = IF Body[e].type = "ITEM_MINTED" THEN Minted(e)
             ELSE IF /\ Body[e].type \in ChainType
                     /\ Body[e].prev \in Event
                     /\ R[Body[e].prev] # NoItem
                     /\ ValidateTransition(R[Body[e].prev], Body[e])
                  THEN ApplyEvent(R[Body[e].prev], e, Body[e])
                  ELSE NoItem
   <2>1. CASE Body[e].type = "ITEM_MINTED"
      <3>1. Minted(e) \in Reached[e]
         BY <2>1, ReachedIsLeast DEF Replayed
      <3> QED BY <1>4, <2>1, <3>1
   <2>2. CASE Body[e].type # "ITEM_MINTED"
      <3>1. CASE /\ Body[e].prev \in Event /\ R[Body[e].prev] # NoItem
                 /\ Extends(e, R[Body[e].prev])
         <4>1. ApplyEvent(R[Body[e].prev], e, Body[e]) \in Reached[e]
            BY <1>5, <3>1, ReachedIsLeast DEF Replayed
         <4> QED BY <1>4, <2>2, <3>1, <4>1 DEF Extends
      <3>2. CASE ~ (/\ Body[e].prev \in Event /\ R[Body[e].prev] # NoItem
                    /\ Extends(e, R[Body[e].prev]))
         <4>1. ASSUME NEW r \in Reached[e] PROVE FALSE
            <5>1. PICK s \in Reached[Body[e].prev] : Body[e].prev \in Event /\ Extends(e, s)
               BY <2>2, <4>1, ReachedHow
            <5>2. R[Body[e].prev] = s /\ s # NoItem
               BY <1>1, <1>4, <5>1, NullAssumption
            <5> QED BY <3>2, <5>1, <5>2
         <4>2. R[e] = NoItem
            BY <1>2, <4>1
         <4> QED BY <2>2, <3>2, <4>2 DEF Extends
      <3> QED BY <3>1, <3>2
   <2> QED BY <2>1, <2>2
<1> QED BY <1>3, <1>6 DEF Replays

\* A record has the height of the event it ends with.
LEMMA ReplayedHeight ==
   ASSUME NEW R, Replays(R), NEW e \in Event, R[e] # NoItem
   PROVE  R[e] \in ItemRecord /\ R[e].height = Body[e].height
<1>1. R[e] \in ItemRecord
   BY DEF Replays
<1>2. CASE Body[e].type = "ITEM_MINTED"
   BY <1>1, <1>2 DEF Replays, Minted, MintedItem
<1>3. CASE Body[e].type # "ITEM_MINTED"
   <2>1. PICK r \in ItemRecord : R[e] = ApplyEvent(r, e, Body[e])
      BY <1>3 DEF Replays
   <2> QED BY <1>1, <2>1 DEF ApplyEvent, ItemRecord
<1> QED BY <1>2, <1>3

\* A solution that has a record where the other agrees below has the same record.
LEMMA ReplaysAgree ==
   ASSUME NEW R, Replays(R), NEW Q, Replays(Q), NEW e \in Event, R[e] # NoItem,
          \A p \in Event : Body[p].height < Body[e].height => R[p] = Q[p]
   PROVE  Q[e] = R[e]
<1>1. CASE Body[e].type = "ITEM_MINTED"
   BY <1>1 DEF Replays
<1>2. CASE Body[e].type # "ITEM_MINTED"
   <2>1. PICK p \in Event :
            /\ p = Body[e].prev /\ Body[e].type \in ChainType /\ R[p] # NoItem
            /\ ValidateTransition(R[p], Body[e])
      BY <1>2 DEF Replays
   <2>2. Body[e].height = Body[p].height + 1
      BY <2>1, ReplayedHeight DEF ValidateTransition
   <2>3. Body[p].height \in Nat
      BY BodyAssumption DEF EventBody
   <2>4. R[p] = Q[p]
      BY <2>2, <2>3
   <2> QED BY <1>2, <2>1, <2>4 DEF Replays
<1> QED BY <1>1, <1>2

\* And only one, because an event is one higher than the event it follows.
THEOREM ReplayUnique ==
   ASSUME NEW R, Replays(R), NEW Q, Replays(Q) PROVE R = Q
<1> DEFINE N == {n \in Nat : \A e \in Event : Body[e].height < n => R[e] = Q[e]}
<1>1. \A e \in Event : Body[e].height \in Nat
   BY BodyAssumption DEF EventBody
<1>2. 0 \in N
   BY <1>1
<1>3. ASSUME NEW n \in Nat, n \in N PROVE n + 1 \in N
   <2>1. ASSUME NEW e \in Event, Body[e].height < n + 1 PROVE R[e] = Q[e]
      <3>1. \A p \in Event : Body[p].height < Body[e].height => R[p] = Q[p]
         BY <1>1, <1>3, <2>1
      <3>2. CASE R[e] # NoItem
         BY <3>1, <3>2, ReplaysAgree
      <3>3. CASE Q[e] # NoItem
         BY <3>1, <3>3, ReplaysAgree
      <3> QED BY <3>2, <3>3
   <2> QED BY <2>1
<1>4. Nat \subseteq N
   <2> HIDE DEF N
   <2> QED BY <1>2, <1>3, SetOfNatInduction
<1>5. ASSUME NEW e \in Event PROVE R[e] = Q[e]
   <2>1. Body[e].height + 1 \in N /\ Body[e].height < Body[e].height + 1
      BY <1>1, <1>4
   <2> QED BY <2>1
<1> QED BY <1>5 DEF Replays
-----------------------------------------------------------------------------
\* Operators without items and scans without answers have their types.
LEMMA InitType == Init => TypeOK
BY DEF Init, TypeOK, Answers, Silence, Verdict

\* Every step keeps the type.
LEMMA NextType == TypeOK /\ [Next]_vars => TypeOK'
<1> SUFFICES ASSUME TypeOK, [Next]_vars PROVE TypeOK'
   OBVIOUS
<1>1. ASSUME NEW e \in Event, Endorse(e) PROVE TypeOK'
   BY <1>1 DEF TypeOK, Endorse
<1>2. ASSUME NEW o \in Operator, NEW e \in Event, Deliver(o, e) PROVE TypeOK'
   <2>1. Body[e].item \in Item
      BY BodyAssumption DEF EventBody
   <2>2. log' \in [Operator -> SUBSET endorsed']
      BY <1>2 DEF TypeOK, Deliver, Verified, AcceptMint, AcceptChain, AcceptNote, Store
   <2>3. item' \in [Operator -> [Item -> ItemRecord \cup {NoItem}]]
      <3>1. CASE AcceptMint(o, e)
         BY <2>1, <3>1, MintedType DEF TypeOK, AcceptMint
      <3>2. CASE AcceptChain(o, e)
         <4>1. item[o][Body[e].item] \in ItemRecord
            BY <2>1, <3>2 DEF TypeOK, AcceptChain
         <4> QED BY <2>1, <3>2, <4>1, AppliedType DEF TypeOK, AcceptChain
      <3>3. CASE AcceptNote(o, e)
         BY <3>3 DEF TypeOK, AcceptNote
      <3> QED BY <1>2, <3>1, <3>2, <3>3 DEF Deliver
   <2> QED BY <1>2, <2>2, <2>3 DEF TypeOK, Deliver
<1>3. ASSUME NEW i \in Item, NEW o \in Operator, Answer(i, o) PROVE TypeOK'
   <2>1. EventsOf(o, i) \in SUBSET Event /\ item[o][i] \in ItemRecord \cup {NoItem}
      BY DEF TypeOK, EventsOf
   <2> QED BY <1>3, <2>1 DEF TypeOK, Answer, Hear, Answers
<1>4. ASSUME NEW i \in Item, NEW o \in Operator, Unreachable(i, o) PROVE TypeOK'
   BY <1>4 DEF TypeOK, Unreachable, Hear, Silence, Answers
<1>5. ASSUME NEW i \in Item, Conclude(i) PROVE TypeOK'
   <2>1. got' \in [Item -> [Operator -> Answers]]
      BY <1>5 DEF TypeOK, Conclude, Silence, Answers
   <2>2. seen' \in [Item -> Event \cup {NoEvent}]
      <3>1. ASSUME NEW o \in Consensus(i) PROVE got[i][o].rec.last \in Event
         BY <3>1 DEF Consensus, Answered, TypeOK, Answers, ItemRecord
      <3> QED BY <1>5, <3>1 DEF TypeOK, Conclude
   <2>3. verdict' \in [Item -> Verdict]
      <3>1. \A s, events : Checked(s, events) \in Verdict
         BY DEF Checked, Verdict
      <3>2. verdict \in [Item -> Verdict] /\ "no_consensus" \in Verdict
         BY DEF TypeOK, Verdict
      <3>3. \E v \in Verdict : verdict' = [verdict EXCEPT ![i] = v]
         BY <1>5, <3>1, <3>2 DEF Conclude
      <3> QED BY <3>2, <3>3
   <2> QED BY <1>5, <2>1, <2>2, <2>3 DEF TypeOK, Conclude
<1>6. CASE UNCHANGED vars
   BY <1>6 DEF TypeOK, vars
<1> QED BY <1>1, <1>2, <1>3, <1>4, <1>5, <1>6 DEF Next

\* The type invariant, for any number of operators, events and items.
THEOREM TypeCorrect == Spec => []TypeOK
BY InitType, NextType, PTL DEF Spec
-----------------------------------------------------------------------------
\* What a step does to a record: nothing, or it starts with a mint, or goes on
\* from the last event to one that names it as its predecessor.
Started(o, i, e) ==
   /\ Body[e].type = "ITEM_MINTED"
   /\ Ancestors[e] = {e}
   /\ e \in OneShot => e \notin log[o]

Continued(o, i, e) ==
   /\ item[o][i] # NoItem
   /\ item[o][i].last \in Event
   /\ Body[e].prev = item[o][i].last /\ Body[e].type \in ChainType
   /\ Ancestors[e] = {e} \cup Ancestors[item[o][i].last]

Moved(o, i, e) ==
   /\ e \in log'[o] /\ e \in endorsed'
   /\ Body[e].item = i
   /\ item'[o][i] # NoItem /\ item'[o][i].last = e
   /\ Started(o, i, e) \/ Continued(o, i, e)

\* What a step does to an operator's record and store.
LEMMA Moves ==
   ASSUME TypeOK, [Next]_vars, NEW o \in Operator, NEW i \in Item
   PROVE  /\ item'[o][i] # item[o][i] => \E e \in Event : Moved(o, i, e)
          /\ log[o] \subseteq log'[o]
          /\ endorsed \subseteq endorsed'
<1>1. CASE UNCHANGED <<item, log>> /\ endorsed \subseteq endorsed'
   BY <1>1
<1>2. ASSUME NEW p \in Operator, NEW e \in Event, Deliver(p, e)
      PROVE  /\ item'[o][i] # item[o][i] => \E f \in Event : Moved(o, i, f)
             /\ log[o] \subseteq log'[o]
             /\ endorsed \subseteq endorsed'
   <2>1. log' = [log EXCEPT ![p] = @ \cup {e}] /\ endorsed' = endorsed
      BY <1>2 DEF Deliver, AcceptMint, AcceptChain, AcceptNote, Store
   <2>2. log[o] \subseteq log'[o] /\ endorsed \subseteq endorsed' /\ e \in log'[p]
      BY <2>1 DEF TypeOK
   <2>3. ASSUME item'[o][i] # item[o][i] PROVE Moved(o, i, e)
      <3>1. e \in endorsed' /\ (e \in OneShot => e \notin log[p])
         BY <1>2, <2>1 DEF Deliver, Verified
      <3>2. CASE AcceptMint(p, e)
         <4>1. p = o /\ Body[e].item = i
            BY <2>3, <3>2 DEF AcceptMint, TypeOK
         <4>2. item'[o][i] = Minted(e)
            BY <3>2, <4>1 DEF AcceptMint, TypeOK
         <4>3. item'[o][i] # NoItem /\ item'[o][i].last = e
            BY <4>2, MintedType, NullAssumption
         <4>4. Started(o, i, e)
            BY <3>1, <3>2, <4>1, HistoryStep DEF AcceptMint, Started
         <4> QED BY <2>2, <3>1, <4>1, <4>3, <4>4 DEF Moved
      <3>3. CASE AcceptChain(p, e)
         <4>1. p = o /\ Body[e].item = i
            BY <2>3, <3>3 DEF AcceptChain, TypeOK
         <4>2. /\ item[o][i] \in ItemRecord /\ ValidateTransition(item[o][i], Body[e])
               /\ item'[o][i] = ApplyEvent(item[o][i], e, Body[e])
            BY <3>3, <4>1 DEF AcceptChain, TypeOK
         <4>3. /\ item'[o][i] # NoItem /\ item'[o][i].last = e
               /\ Body[e].prev = item[o][i].last /\ Body[e].type # "ITEM_MINTED"
               /\ Body[e].type \in ChainType
            BY <4>2, AppliedType, NullAssumption
         <4>4. item[o][i] # NoItem /\ item[o][i].last \in Event
            BY <4>2, NullAssumption DEF ItemRecord
         <4>5. Continued(o, i, e)
            BY <4>3, <4>4, HistoryStep DEF Continued
         <4> QED BY <2>2, <3>1, <4>1, <4>3, <4>5 DEF Moved
      <3>4. CASE AcceptNote(p, e)
         BY <2>3, <3>4 DEF AcceptNote
      <3> QED BY <1>2, <3>2, <3>3, <3>4 DEF Deliver
   <2> QED BY <2>2, <2>3
<1> QED BY <1>1, <1>2
        DEF Next, vars, Endorse, Answer, Unreachable, Hear, Conclude
-----------------------------------------------------------------------------
\* Nobody has a record at first.
LEMMA InitRooted == Init => HistoriesRooted
BY DEF Init, HistoriesRooted, Rooted

\* A record moves to an event whose predecessor it was at.
LEMMA NextRooted == TypeOK /\ HistoriesRooted /\ [Next]_vars => HistoriesRooted'
<1> SUFFICES ASSUME TypeOK, HistoriesRooted, [Next]_vars,
                    NEW o \in Operator, NEW i \in Item
             PROVE  Rooted(o, i)'
   BY DEF HistoriesRooted
<1>1. Rooted(o, i) /\ log[o] \subseteq log'[o]
   BY Moves DEF HistoriesRooted
<1>2. CASE item'[o][i] = item[o][i]
   BY <1>1, <1>2 DEF Rooted
<1>3. ASSUME NEW e \in Event, Moved(o, i, e) PROVE Rooted(o, i)'
   <2>1. CASE Started(o, i, e)
      BY <1>3, <2>1 DEF Moved, Started, Rooted
   <2>2. CASE Continued(o, i, e)
      <3> DEFINE x == item[o][i].last
      <3>1. /\ item'[o][i].last = e /\ item'[o][i] # NoItem
            /\ Ancestors[e] = {e} \cup Ancestors[x]
            /\ Body[e].prev = x /\ Body[e].item = i /\ e \in log'[o]
            /\ Body[e].type \in ChainType
         BY <1>3, <2>2 DEF Moved, Continued
      <3>2. /\ \E m \in log[o] \cap Ancestors[x] :
                  Body[m].type = "ITEM_MINTED" /\ Body[m].item = i
            /\ \A y \in Ancestors[x] \ {x} :
                  \E c \in log[o] \cap Ancestors[x] :
                     Body[c].prev = y /\ Body[c].item = i /\ Body[c].type \in ChainType
         BY <1>1, <2>2 DEF Rooted, Continued
      <3>3. \E m \in log'[o] \cap Ancestors[e] :
               Body[m].type = "ITEM_MINTED" /\ Body[m].item = i
         BY <1>1, <3>1, <3>2
      <3>4. ASSUME NEW y \in Ancestors[e] \ {e}
            PROVE  \E c \in log'[o] \cap Ancestors[e] :
                      Body[c].prev = y /\ Body[c].item = i /\ Body[c].type \in ChainType
         <4>1. CASE y = x
            BY <3>1, <4>1
         <4>2. CASE y # x
            BY <1>1, <3>1, <3>2, <3>4, <4>2
         <4> QED BY <4>1, <4>2
      <3> QED BY <3>1, <3>3, <3>4 DEF Rooted
   <2> QED BY <1>3, <2>1, <2>2 DEF Moved
<1> QED BY <1>2, <1>3, Moves

\* One operator moves on: it stays in line with the others, or meets a rival.
LEMMA OneMoves ==
   ASSUME TypeOK, HistoriesRooted, [Next]_vars, NEW e \in Event,
          NEW o \in Operator, NEW p \in Operator, NEW i \in Item,
          Apart(o, p, i), Moved(o, i, e), item'[p][i] = item[p][i],
          endorsed \in SUBSET Event
   PROVE  Apart(o, p, i)'
<1> SUFFICES ASSUME item'[p][i] # NoItem PROVE Apart(o, p, i)'
   BY DEF Apart
<1> DEFINE y == item[p][i].last
<1>1. /\ log[o] \subseteq log'[o] /\ log[p] \subseteq log'[p] /\ endorsed \subseteq endorsed'
      /\ log[p] \subseteq endorsed
   BY Moves DEF TypeOK
<1>2. /\ e \in log'[o] /\ e \in endorsed' /\ Body[e].item = i
      /\ item'[o][i].last = e /\ item'[p][i].last = y
   BY DEF Moved
<1>3. /\ \E m \in log[p] \cap Ancestors[y] :
            Body[m].type = "ITEM_MINTED" /\ Body[m].item = i
      /\ \A z \in Ancestors[y] \ {y} :
            \E c \in log[p] \cap Ancestors[y] :
               Body[c].prev = z /\ Body[c].item = i /\ Body[c].type \in ChainType
   BY DEF HistoriesRooted, Rooted
<1>4. ASSUME NEW c \in log[p] \cap Ancestors[y], e = c \/ Rivals(e, c)
      PROVE  Apart(o, p, i)'
   <2>1. CASE e = c
      BY <1>2, <1>4, <2>1 DEF Apart, OneChain
   <2>2. CASE Rivals(e, c)
      BY <1>1, <1>2, <1>4, <2>2 DEF Apart
   <2> QED BY <1>4, <2>1, <2>2
<1>5. CASE Started(o, i, e)
   BY <1>2, <1>3, <1>4, <1>5 DEF Started, Rivals
<1>6. CASE Continued(o, i, e)
   <2> DEFINE x == item[o][i].last
   <2>1. /\ item[o][i] # NoItem /\ x \in Event
         /\ Body[e].prev = x /\ Body[e].type \in ChainType
         /\ Ancestors[e] = {e} \cup Ancestors[x] /\ x \in Ancestors[x]
      BY <1>6, HistoryStep DEF Continued
   <2>2. CASE \E a \in log[o], b \in log[p] : Rivals(a, b) /\ {a, b} \subseteq endorsed
      BY <1>1, <2>2 DEF Apart
   <2>3. CASE y \in Ancestors[x]
      BY <1>2, <2>1, <2>3 DEF Apart, OneChain
   <2>4. CASE x \in Ancestors[y] /\ x # y
      <3>1. PICK c \in log[p] \cap Ancestors[y] :
               Body[c].prev = x /\ Body[c].item = i /\ Body[c].type \in ChainType
         BY <1>3, <2>4
      <3>2. e = c \/ Rivals(e, c)
         BY <1>2, <2>1, <3>1 DEF Rivals
      <3> QED BY <1>4, <3>2
   <2> QED BY <2>1, <2>2, <2>3, <2>4 DEF Apart, OneChain
<1> QED BY <1>5, <1>6 DEF Moved

\* Nobody has parted at first.
LEMMA InitApart == Init => DivergenceIsSigned
BY DEF Init, DivergenceIsSigned

\* Operators part only at the step that stores a signed rival.
LEMMA NextApart ==
   TypeOK /\ HistoriesRooted /\ DivergenceIsSigned /\ [Next]_vars => DivergenceIsSigned'
<1> SUFFICES ASSUME TypeOK, HistoriesRooted, DivergenceIsSigned, [Next]_vars,
                    NEW o \in Operator, NEW p \in Operator, NEW i \in Item
             PROVE  Apart(o, p, i)'
   BY DEF DivergenceIsSigned, Apart
<1>1. Apart(o, p, i) /\ Apart(p, o, i) /\ TypeOK'
   BY NextType DEF DivergenceIsSigned, Apart
<1>2. endorsed \in SUBSET Event
   BY DEF TypeOK
<1>3. CASE item'[o][i] = item[o][i] /\ item'[p][i] = item[p][i]
   BY <1>1, <1>3, Moves DEF Apart
<1>4. CASE item'[o][i] # item[o][i] /\ item'[p][i] = item[p][i]
   BY <1>1, <1>2, <1>4, Moves, OneMoves
<1>5. CASE item'[o][i] = item[o][i] /\ item'[p][i] # item[p][i]
   <2>1. Apart(p, o, i)'
      BY <1>1, <1>2, <1>5, Moves, OneMoves
   <2>2. CASE \E a \in log'[p], b \in log'[o] : Rivals(a, b) /\ {a, b} \subseteq endorsed'
      BY <2>2 DEF Apart, Rivals
   <2> QED BY <2>1, <2>2 DEF Apart, OneChain
<1>6. CASE item'[o][i] # item[o][i] /\ item'[p][i] # item[p][i]
   <2>1. o = p
      BY <1>6 DEF Next, vars, Endorse, Deliver, AcceptMint, AcceptChain, AcceptNote,
                  Answer, Unreachable, Hear, Conclude, TypeOK
   <2>2. PICK e \in Event : Moved(o, i, e)
      BY <1>6, Moves
   <2> QED BY <2>1, <2>2, HistoryStep DEF Moved, Apart, OneChain
<1> QED BY <1>3, <1>4, <1>5, <1>6

\* Operators part only where two rival events were both given a quorum, for any
\* number of operators and any order, loss and repetition of deliveries.
THEOREM DivergenceAlwaysSigned == Spec => []DivergenceIsSigned
BY InitType, NextType, InitRooted, NextRooted, InitApart, NextApart, PTL DEF Spec
-----------------------------------------------------------------------------
\* An item is minted by one event, and that event is delivered to an operator
\* at most once: the node accepts a mint of an item it knows and starts over.
MintsOnce ==
   \A e, f \in Event :
      Body[e].type = "ITEM_MINTED" =>
         /\ e \in OneShot
         /\ Body[f].type = "ITEM_MINTED" /\ Body[f].item = Body[e].item => e = f

\* o has x behind it, and so has the answer it has given to the present scan.
Holds(o, i, x) ==
   /\ item[o][i] # NoItem
   /\ x \in Ancestors[item[o][i].last]
   /\ o \in Answered(i) => x \in Ancestors[got[i][o].rec.last]

\* What a scan found is behind a quorum for good.
SeenIsHeld ==
   \A i \in Item : seen[i] # NoEvent =>
      \E Q \in SUBSET Operator :
         Cardinality(Q) >= M /\ \A o \in Q : Holds(o, i, seen[i])

\* What an operator has answered is behind it.
AnswersAreBehind ==
   \A i \in Item, o \in Operator : o \in Answered(i) =>
      item[o][i] # NoItem /\ got[i][o].rec.last \in Ancestors[item[o][i].last]

ScanInv == TypeOK /\ HistoriesRooted /\ SeenIsHeld /\ AnswersAreBehind

\* With one mint per item an operator's history only grows.
LEMMA HistoryGrows ==
   ASSUME MintsOnce, TypeOK, HistoriesRooted, [Next]_vars,
          NEW o \in Operator, NEW i \in Item, item[o][i] # NoItem,
          NEW x \in Ancestors[item[o][i].last]
   PROVE  item'[o][i] # NoItem /\ x \in Ancestors[item'[o][i].last]
<1>1. ASSUME NEW e \in Event, Moved(o, i, e)
      PROVE  item'[o][i] # NoItem /\ x \in Ancestors[item'[o][i].last]
   <2>1. ~ Started(o, i, e)
      <3>1. PICK m \in log[o] : Body[m].type = "ITEM_MINTED" /\ Body[m].item = i
         BY DEF HistoriesRooted, Rooted
      <3>2. m \in Event
         BY <3>1 DEF TypeOK
      <3> QED BY <1>1, <3>1, <3>2 DEF MintsOnce, Moved, Started
   <2> QED BY <1>1, <2>1 DEF Moved, Continued
<1> QED BY <1>1, Moves

\* An answer is a record with a last event.
LEMMA AnswerType ==
   ASSUME TypeOK, NEW i \in Item, NEW o \in Answered(i)
   PROVE  o \in Operator /\ got[i][o].rec \in ItemRecord /\ got[i][o].rec.last \in Event
BY DEF TypeOK, Answered, Answers, ItemRecord

\* The operators of a consensus are a quorum that agrees on the last event.
LEMMA ConsensusIsQuorum ==
   ASSUME NEW i \in Item, NEW o \in Consensus(i)
   PROVE  /\ Agreeing(i, o) \in SUBSET Operator
          /\ Cardinality(Agreeing(i, o)) >= M
          /\ \A p \in Agreeing(i, o) :
                p \in Answered(i) /\ got[i][p].rec.last = got[i][o].rec.last
BY DEF Consensus, Agreeing, Answered, SameState

\* Nothing has been seen or answered at first.
LEMMA InitScan == Init => SeenIsHeld /\ AnswersAreBehind
BY DEF Init, SeenIsHeld, AnswersAreBehind, Answered, Silence

\* Steps that leave what scans heard and found alone.
LEMMA ScanKept ==
   ASSUME MintsOnce, ScanInv, [Next]_vars, UNCHANGED <<got, seen>>
   PROVE  SeenIsHeld' /\ AnswersAreBehind'
<1>1. ASSUME NEW i \in Item, NEW o \in Operator, NEW x, Holds(o, i, x) PROVE Holds(o, i, x)'
   BY <1>1, HistoryGrows DEF ScanInv, Holds, Answered
<1>2. SeenIsHeld'
   BY <1>1 DEF ScanInv, SeenIsHeld
<1>3. AnswersAreBehind'
   BY HistoryGrows DEF ScanInv, AnswersAreBehind, Answered
<1> QED BY <1>2, <1>3

\* An operator answers, or fails to.
LEMMA ScanHears ==
   ASSUME ScanInv, NEW j \in Item, NEW p \in Operator,
          Answer(j, p) \/ Unreachable(j, p)
   PROVE  SeenIsHeld' /\ AnswersAreBehind'
<1>1. UNCHANGED <<item, seen>>
   BY DEF Answer, Unreachable, Hear
<1>2. ASSUME NEW i \in Item, NEW o \in Operator, o \in Answered(i)'
      PROVE  \/ o \in Answered(i) /\ got'[i][o] = got[i][o]
             \/ item[o][i] # NoItem /\ got'[i][o].rec = item[o][i]
   <2>1. got \in [Item -> [Operator -> Answers]]
      BY DEF ScanInv, TypeOK
   <2>2. ASSUME NEW answer, got' = [got EXCEPT ![j][p] = answer]
         PROVE  got'[i][o] = IF i = j /\ o = p THEN answer ELSE got[i][o]
      BY <2>1, <2>2
   <2>3. CASE Answer(j, p)
      <3>1. got'[i][o] = IF i = j /\ o = p
                         THEN [st |-> "answered", rec |-> item[p][j], events |-> EventsOf(p, j)]
                         ELSE got[i][o]
         BY <2>2, <2>3, Zenon DEF Answer, Hear
      <3>2. CASE i = j /\ o = p
         <4>1. got'[i][o].rec = item[p][j]
            BY <3>1, <3>2
         <4> QED BY <4>1, <3>2, <1>2 DEF Answered
      <3>3. CASE ~(i = j /\ o = p)
         BY <3>1, <3>3, <1>2 DEF Answered
      <3> QED BY <3>2, <3>3
   <2>4. CASE Unreachable(j, p)
      <3>1. got'[i][o] = IF i = j /\ o = p THEN [Silence EXCEPT !.st = "failed"] ELSE got[i][o]
         BY <2>2, <2>4, Zenon DEF Unreachable, Hear
      <3>2. [Silence EXCEPT !.st = "failed"].st = "failed"
         BY DEF Silence
      <3> QED BY <3>1, <3>2, <1>2 DEF Answered
   <2> QED BY <2>3, <2>4
<1>3. ASSUME NEW i \in Item, NEW o \in Operator, NEW x, Holds(o, i, x) PROVE Holds(o, i, x)'
   BY <1>1, <1>2, <1>3 DEF Holds
<1>4. SeenIsHeld'
   BY <1>1, <1>3 DEF ScanInv, SeenIsHeld
<1>5. AnswersAreBehind'
   <2> SUFFICES ASSUME NEW i \in Item, NEW o \in Operator, o \in Answered(i)'
                PROVE  item'[o][i] # NoItem /\ got'[i][o].rec.last \in Ancestors[item'[o][i].last]
      BY DEF AnswersAreBehind
   <2>1. CASE o \in Answered(i) /\ got'[i][o] = got[i][o]
      BY <1>1, <2>1 DEF ScanInv, AnswersAreBehind
   <2>2. CASE item[o][i] # NoItem /\ got'[i][o].rec = item[o][i]
      <3>1. item[o][i].last \in Event
         BY <2>2 DEF ScanInv, TypeOK, ItemRecord
      <3> QED BY <1>1, <2>2, <3>1, HistoryStep
   <2> QED BY <1>2, <2>1, <2>2
<1> QED BY <1>4, <1>5

\* A scan returns.
LEMMA ScanConcludes ==
   ASSUME ScanInv, NEW j \in Item, Conclude(j)
   PROVE  SeenIsHeld' /\ AnswersAreBehind'
<1>1. UNCHANGED item /\ got' = [got EXCEPT ![j] = [o \in Operator |-> Silence]]
   BY DEF Conclude
<1>2. ASSUME NEW i \in Item, NEW o \in Operator, o \in Answered(i)'
      PROVE  i # j /\ o \in Answered(i) /\ got'[i][o] = got[i][o]
   BY <1>1, <1>2 DEF Answered, Silence, ScanInv, TypeOK
<1>3. AnswersAreBehind'
   BY <1>1, <1>2 DEF AnswersAreBehind, ScanInv
<1>4. ASSUME NEW i \in Item, NEW o \in Operator, NEW x, Holds(o, i, x) PROVE Holds(o, i, x)'
   BY <1>1, <1>2, <1>4 DEF Holds
<1>5. SeenIsHeld'
   <2>1. CASE seen' = seen
      BY <1>4, <2>1 DEF SeenIsHeld, ScanInv
   <2>2. ASSUME NEW o \in Consensus(j), seen' = [seen EXCEPT ![j] = got[j][o].rec.last]
         PROVE  SeenIsHeld'
      <3> SUFFICES ASSUME NEW i \in Item, NEW x, x = seen'[i], x # NoEvent
                   PROVE  \E Q \in SUBSET Operator :
                             Cardinality(Q) >= M /\ \A p \in Q : Holds(p, i, x)'
         BY DEF SeenIsHeld, Holds, Answered
      <3>1. CASE i # j
         BY <1>4, <2>2, <3>1 DEF ScanInv, SeenIsHeld, TypeOK
      <3>2. CASE i = j
         <4>1. x = got[j][o].rec.last
            BY <2>2, <3>2 DEF ScanInv, TypeOK
         <4>2. ASSUME NEW p \in Agreeing(j, o) PROVE Holds(p, i, x)'
            <5>1. p \in Operator /\ p \in Answered(j) /\ got[j][p].rec.last = x
               BY <2>2, <4>1, ConsensusIsQuorum
            <5>2. item[p][j] # NoItem /\ x \in Ancestors[item[p][j].last]
               BY <5>1 DEF ScanInv, AnswersAreBehind
            <5>3. p \notin Answered(j)'
               BY <1>2, <5>1
            <5> QED BY <1>1, <3>2, <5>2, <5>3 DEF Holds
         <4> QED BY <2>2, <4>2, ConsensusIsQuorum
      <3> QED BY <3>1, <3>2
   <2> QED BY <2>1, <2>2 DEF Conclude
<1> QED BY <1>3, <1>5

\* Every step keeps what scans rely on.
LEMMA NextScan == ASSUME MintsOnce PROVE ScanInv /\ [Next]_vars => ScanInv'
<1> SUFFICES ASSUME ScanInv, [Next]_vars PROVE SeenIsHeld' /\ AnswersAreBehind'
   BY NextType, NextRooted DEF ScanInv
<1>1. CASE UNCHANGED <<got, seen>>
   BY <1>1, ScanKept
<1>2. ASSUME NEW i \in Item, NEW o \in Operator, Answer(i, o) \/ Unreachable(i, o)
      PROVE  SeenIsHeld' /\ AnswersAreBehind'
   BY <1>2, ScanHears
<1>3. ASSUME NEW i \in Item, Conclude(i) PROVE SeenIsHeld' /\ AnswersAreBehind'
   BY <1>3, ScanConcludes
<1> QED BY <1>1, <1>2, <1>3 DEF Next, vars, Endorse, Deliver

\* Two quorums share an operator, and its history holds what both scans found.
LEMMA StepForward ==
   ASSUME 2 * M > Cardinality(Operator), ScanInv, [Next]_vars,
          NEW i \in Item, seen'[i] # seen[i], seen[i] # NoEvent
   PROVE  seen[i] \in Ancestors[seen'[i]]
<1>1. PICK o \in Consensus(i) : seen'[i] = got[i][o].rec.last
   BY DEF ScanInv, TypeOK, Next, vars, Endorse, Deliver, Answer, Unreachable, Hear, Conclude
<1>2. PICK Q \in SUBSET Operator : Cardinality(Q) >= M /\ \A p \in Q : Holds(p, i, seen[i])
   BY DEF ScanInv, SeenIsHeld
<1> DEFINE A == Agreeing(i, o)
<1>3. /\ A \in SUBSET Operator /\ Cardinality(A) >= M
      /\ \A p \in A : p \in Answered(i) /\ got[i][p].rec.last = seen'[i]
   BY <1>1, ConsensusIsQuorum
<1>4. Q \cap A # {}
   <2>1. /\ Cardinality(Q) \in Nat /\ Cardinality(A) \in Nat /\ Cardinality(Operator) \in Nat
         /\ M \in Nat
      BY <1>3, NetworkAssumption, FS_Subset, FS_CardinalityType
   <2>2. Cardinality(Q) + Cardinality(A) > Cardinality(Operator)
      BY <1>2, <1>3, <2>1
   <2> HIDE DEF A
   <2> QED BY <1>2, <1>3, <2>2, NetworkAssumption, FS_MajoritiesIntersect
<1>5. PICK p \in Q \cap A : TRUE
   BY <1>4
<1> QED BY <1>2, <1>3, <1>5 DEF Holds

\* A scan that finds the operators agreed never finds less than the one before,
\* for any operators, any quorum above half and any order of deliveries.
THEOREM ScansNeverGoBack ==
   ASSUME MintsOnce, 2 * M > Cardinality(Operator) PROVE Spec => ScanNeverGoesBack
<1>1. Init => ScanInv
   BY InitType, InitRooted, InitScan DEF ScanInv
<1>2. ScanInv /\ [Next]_vars => ScanInv'
   BY NextScan
<1>3. ScanInv /\ [Next]_vars =>
         [\A i \in Item : seen'[i] # seen[i] /\ seen[i] # NoEvent =>
             seen[i] \in Ancestors[seen'[i]]]_vars
   BY StepForward
<1> QED BY <1>1, <1>2, <1>3, PTL DEF Spec, ScanNeverGoesBack
-----------------------------------------------------------------------------
\* An operator of the network as the register a single node promises to be.
\* The network tells nobody what was accepted: its register answers no one.
Op(o) == INSTANCE OwnershipRegister WITH item <- item[o], done <- log[o], answered <- {}

\* An operator judges and applies events as the register does.
LEMMA OpMachine ==
   ASSUME NEW o \in Operator, NEW e \in Event, NEW rec
   PROVE  /\ Op(o)!Minted(e) = Minted(e)
          /\ Op(o)!ValidateTransition(rec, Body[e]) <=> ValidateTransition(rec, Body[e])
          /\ Op(o)!ApplyEvent(rec, e, Body[e]) = ApplyEvent(rec, e, Body[e])
<1>1. Op(o)!Minted(e) = Minted(e)
   BY DEF Minted, MintedItem, Op!Minted, Op!MintedItem
<1>2. Op(o)!Allowed = Allowed
   BY DEF Allowed, ItemState, Op!Allowed, Op!ItemState
<1>3. Op(o)!NextState(Body[e].type) = NextState(Body[e].type)
   BY DEF NextState, Op!NextState
<1> QED BY <1>1, <1>2, <1>3
        DEF ValidateTransition, IsValidTransition, ApplyEvent,
            Op!ValidateTransition, Op!IsValidTransition, Op!ApplyEvent

\* Every step of the network is, for each operator, a step of its register or none.
LEMMA NextOp ==
   ASSUME TypeOK, [Next]_vars, NEW o \in Operator
   PROVE  [Op(o)!Next]_<<item[o], log[o], {}>>
<1>1. CASE UNCHANGED <<item, log>>
   BY <1>1
<1>2. ASSUME NEW p \in Operator, NEW e \in Event, Deliver(p, e)
      PROVE  [Op(o)!Next]_<<item[o], log[o], {}>>
   <2>1. log' = [log EXCEPT ![p] = @ \cup {e}]
      BY <1>2 DEF Deliver, AcceptMint, AcceptChain, AcceptNote, Store
   <2>2. CASE p # o
      BY <1>2, <2>1, <2>2 DEF TypeOK, Deliver, AcceptMint, AcceptChain, AcceptNote
   <2>3. CASE p = o
      <3>1. log'[o] = log[o] \cup {e}
         BY <2>1, <2>3 DEF TypeOK
      <3>2. CASE AcceptMint(p, e)
         <4>1. Op(o)!Mint(e)
            BY <2>3, <3>1, <3>2, OpMachine DEF AcceptMint, TypeOK, Op!Mint
         <4> QED BY <4>1 DEF Op!Next
      <3>3. CASE AcceptChain(p, e)
         <4>1. Op(o)!Advance(e)
            BY <2>3, <3>1, <3>3, OpMachine DEF AcceptChain, TypeOK, Op!Advance
         <4> QED BY <4>1 DEF Op!Next
      <3>4. CASE AcceptNote(p, e)
         <4>1. Op(o)!Note(e)
            BY <2>3, <3>1, <3>4 DEF AcceptNote, Op!Note
         <4> QED BY <4>1 DEF Op!Next
      <3> QED BY <1>2, <3>2, <3>3, <3>4 DEF Deliver
   <2> QED BY <2>2, <2>3
<1> QED BY <1>1, <1>2
        DEF Next, vars, Endorse, Answer, Unreachable, Hear, Conclude

\* Each operator of the network is the register that a node taken alone is
\* proved to be: what this module lets an operator do is no more than the node
\* promises, whatever the others, the issuers and the clients do.
THEOREM OperatorsAreRegisters == ASSUME NEW o \in Operator PROVE Spec => Op(o)!Spec
<1>1. Init => Op(o)!Init
   BY DEF Init, Op!Init
<1>2. TypeOK /\ [Next]_vars => [Op(o)!Next]_<<item[o], log[o], {}>>
   BY NextOp
<1> QED BY <1>1, <1>2, TypeCorrect, PTL DEF Spec, Op!Spec
=============================================================================
