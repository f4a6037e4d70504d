-------------------------- MODULE ItemStateMachine --------------------------
(***************************************************************************)
(* The pure part of core/state-machine.ts: which event may follow which    *)
(* item state, and what it does to the item record.  An item record is     *)
(*   [item, state, owner, mint, last, height]                              *)
(* where mint is the event that created it (it stands for manufacturerId,  *)
(* metadataHash and mintedAt, which no later event changes) and last and   *)
(* height are lastEventHash and lastEventHeight.  An event is its id, the  *)
(* hash of its body; the body is a record                                  *)
(*   [type, item, height, prev, time, wallet, party].                      *)
(***************************************************************************)
EXTENDS Naturals, Sequences

ItemState == {"MINTED", "ACTIVE_HELD", "LOCKED_IN_ESCROW", "IN_CUSTODY", "BURNED"}

\* The event types that move an item along its chain.
ChainType == {"ITEM_ASSIGNED", "ITEM_LOCKED", "ITEM_SETTLED",
              "ITEM_UNLOCKED_EXPIRED", "ITEM_MOVED_TO_CUSTODY", "ITEM_BURNED"}

EventType == ChainType \cup {"ITEM_MINTED", "ITEM_AUTHENTICATED",
              "AUTHENTICATOR_REGISTERED", "MANUFACTURER_REGISTERED"}

\* The transitions table of isValidTransition.
Allowed == [s \in ItemState |->
   CASE s = "MINTED"           -> {"ITEM_ASSIGNED", "ITEM_MOVED_TO_CUSTODY", "ITEM_BURNED"}
     [] s = "ACTIVE_HELD"      -> {"ITEM_LOCKED", "ITEM_MOVED_TO_CUSTODY", "ITEM_BURNED"}
     [] s = "LOCKED_IN_ESCROW" -> {"ITEM_SETTLED", "ITEM_UNLOCKED_EXPIRED", "ITEM_BURNED"}
     [] s = "IN_CUSTODY"       -> {"ITEM_ASSIGNED", "ITEM_BURNED"}
     [] s = "BURNED"           -> {}]

IsValidTransition(s, type) == type \in Allowed[s]

\* getNextState: the state after an event depends on its type alone.
NextState(type) ==
   CASE type \in {"ITEM_ASSIGNED", "ITEM_SETTLED", "ITEM_UNLOCKED_EXPIRED"} -> "ACTIVE_HELD"
     [] type = "ITEM_LOCKED"           -> "LOCKED_IN_ESCROW"
     [] type = "ITEM_MOVED_TO_CUSTODY" -> "IN_CUSTODY"
     [] type = "ITEM_BURNED"           -> "BURNED"

\* The previous hash goes unchecked (a seeded bug).
ValidateHeightOnly(rec, body) ==
   /\ body.item = rec.item
   /\ body.height = rec.height + 1
   /\ IsValidTransition(rec.state, body.type)

\* Height and previous hash go unchecked (a seeded bug).
ValidateStateOnly(rec, body) ==
   /\ body.item = rec.item
   /\ IsValidTransition(rec.state, body.type)

\* validateTransition.  Its manufacturer branch and its switch test conditions
\* the table already excludes, so they cannot change the verdict.
ValidateTransition(rec, body) ==
   /\ body.item = rec.item
   /\ body.height = rec.height + 1
   /\ body.prev = rec.last
   /\ IsValidTransition(rec.state, body.type)

\* applyEvent on a record the event is valid for.
ApplyEvent(rec, e, body) ==
   [rec EXCEPT !.state  = NextState(body.type),
               !.last   = e,
               !.height = body.height,
               !.owner  = IF body.type \in {"ITEM_ASSIGNED", "ITEM_SETTLED"}
                          THEN body.wallet ELSE @]

\* The fresh record updateItemState builds for ITEM_MINTED.
MintedItem(e, body, noOwner) ==
   [item |-> body.item, state |-> "MINTED", owner |-> noOwner,
    mint |-> e, last |-> e, height |-> body.height]

\* validateEventChain over the bodies of a list of events.
ValidEventChain(ids, body) ==
   \A k \in 2..Len(ids) :
      /\ body[ids[k]].height = body[ids[k-1]].height + 1
      /\ body[ids[k]].prev = ids[k-1]
      /\ body[ids[k]].time >= body[ids[k-1]].time
=============================================================================
