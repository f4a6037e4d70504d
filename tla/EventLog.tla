------------------------------ MODULE EventLog ------------------------------
(***************************************************************************)
(* The universe of events the operators exchange, and what their hash      *)
(* chain says.  Event is a set of event ids and Body[e] the content e is   *)
(* the hash of (calculateEventHash, core/hashing.ts): two events with the  *)
(* same id have the same body, and hash collisions do not happen.          *)
(***************************************************************************)
EXTENDS ItemStateMachine

CONSTANTS
   Event,     \* event ids
   Body,      \* [Event -> bodies]: the hashed content
   Item,      \* item ids
   Party,     \* manufacturers and authenticators
   Wallet,    \* owners' wallets
   NoEvent,   \* the all-zero previous hash of a mint
   NoItem,    \* no item record
   NoOwner,   \* the empty currentOwnerWallet of a fresh item
   Replay     \* the record an event's chain of previous hashes leads to

EventBody ==
   [type : EventType, item : Item, height : Nat, prev : Event \cup {NoEvent},
    time : Nat, wallet : Wallet, party : Party]

ItemRecord ==
   [item : Item, state : ItemState, owner : Wallet \cup {NoOwner},
    mint : Event, last : Event, height : Nat]

Minted(e) == MintedItem(e, Body[e], NoOwner)

\* The record reached by replaying e after its predecessor, if that is legal.
Follows(e) ==
   LET p == Body[e].prev IN
   /\ Body[e].type \in ChainType
   /\ p \in Event
   /\ Replay[p] # NoItem
   /\ ValidateTransition(Replay[p], Body[e])

ASSUME BodyAssumption == Body \in [Event -> EventBody]

ASSUME NullAssumption ==
   /\ NoEvent \notin Event
   /\ NoItem \notin ItemRecord

\* Replay is defined by recursion along the previous hashes.  It is a constant
\* of the module so that its defining equation is an assumption proofs can use;
\* OperatorNetworkProofs shows that the equation has one solution, whatever the
\* events.
ASSUME ReplayAssumption ==
   /\ Replay \in [Event -> ItemRecord \cup {NoItem}]
   /\ \A e \in Event :
        Replay[e] = IF Body[e].type = "ITEM_MINTED" THEN Minted(e)
                    ELSE IF Follows(e)
                         THEN ApplyEvent(Replay[Body[e].prev], e, Body[e])
                         ELSE NoItem

\* The sets that hold, with any event but a mint, the event it follows.
Histories == {s \in SUBSET Event : \A e \in s :
   Body[e].type # "ITEM_MINTED" /\ Body[e].prev \in Event => Body[e].prev \in s}

\* The history that ends with an event: the least of those sets that has it.  A
\* mint starts a history, whatever it names as its predecessor.
Ancestors == [e \in Event |-> {f \in Event : \A s \in Histories : e \in s => f \in s}]
=============================================================================
