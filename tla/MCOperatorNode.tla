--------------------------- MODULE MCOperatorNode ---------------------------
(***************************************************************************)
(* Small universes of events for OperatorNode.  All of them are about one  *)
(* item and one manufacturer; ids say what an event does: m mints, a       *)
(* assigns, l1 and l2 lock after a, s1 settles and u1 unlocks l1, b1 burns *)
(* the locked item, d is an assignment from custody c, z assigns the       *)
(* burned item, at is an attestation, ar and mr register an authenticator  *)
(* and a manufacturer.                                                     *)
(***************************************************************************)
EXTENDS OperatorNode, TLC

Ev(type, height, prev, wallet) ==
   [type |-> type, item |-> "i1", height |-> height, prev |-> prev, time |-> 1,
    wallet |-> wallet, party |-> IF type = "ITEM_AUTHENTICATED" THEN "auth" ELSE "mfr"]

MCBody(ids) == [e \in ids |->
   CASE e = "m"  -> Ev("ITEM_MINTED", 1, "0", "w1")
     [] e = "a"  -> Ev("ITEM_ASSIGNED", 2, "m", "w1")
     [] e = "l1" -> Ev("ITEM_LOCKED", 3, "a", "w1")
     [] e = "l2" -> Ev("ITEM_LOCKED", 3, "a", "w1")
     [] e = "s1" -> Ev("ITEM_SETTLED", 4, "l1", "w2")
     [] e = "u1" -> Ev("ITEM_UNLOCKED_EXPIRED", 4, "l1", "w1")
     [] e = "c"  -> Ev("ITEM_MOVED_TO_CUSTODY", 2, "m", "w1")
     [] e = "d"  -> Ev("ITEM_ASSIGNED", 3, "c", "w2")
     [] e = "b1" -> Ev("ITEM_BURNED", 4, "l1", "w1")
     [] e = "z"  -> Ev("ITEM_ASSIGNED", 5, "b1", "w1")
     [] e = "at" -> Ev("ITEM_AUTHENTICATED", 2, "m", "w1")
     [] e = "ar" -> Ev("AUTHENTICATOR_REGISTERED", 1, "0", "w1")
     [] e = "mr" -> Ev("MANUFACTURER_REGISTERED", 1, "0", "w1")]

\* The defining equation of Replay, for the ids and their bodies.
MCReplay(ids) ==
   LET body == MCBody(ids)
       replay[e \in ids] ==
          LET p == body[e].prev IN
          IF body[e].type = "ITEM_MINTED" THEN MintedItem(e, body[e], NoOwner)
          ELSE IF body[e].type \notin ChainType \/ p \notin ids THEN NoItem
          ELSE IF replay[p] = NoItem THEN NoItem
          ELSE IF ValidateTransition(replay[p], body[e])
               THEN ApplyEvent(replay[p], e, body[e]) ELSE NoItem
   IN [e \in ids |-> replay[e]]

Sig(o) == [by |-> o, ok |-> TRUE]
QuorumOnly == { <<Sig("o1"), Sig("o2")>> }
QuorumOrNot == QuorumOnly \cup { <<Sig("o1"), [by |-> "o2", ok |-> FALSE]>> }

\* One request at a time: the whole life of an item.
LifeEvents == {"m", "a", "c", "d", "l1", "l2", "s1", "u1", "b1", "z", "mr"}
LifeBody == MCBody(LifeEvents)
LifeAttested == {}
LifeReplay == MCReplay(LifeEvents)
\* Mints arrive once (what a retried mint does is told in the README).
Mints == {e \in Event : Type(e) = "ITEM_MINTED"}

\* Two requests at a time.  No property names a task.
TaskSymmetry == Permutations(Task)

RaceEvents == {"m", "a", "l1", "l2"}
RaceBody == MCBody(RaceEvents)
RaceAttested == {}
RaceReplay == MCReplay(RaceEvents)

\* A lock needs nothing of a proof that an assignment does not.
ProofEvents == {"m", "a", "at", "ar"}
ProofBody == MCBody(ProofEvents)
ProofAttested == {"at"}
ProofReplay == MCReplay(ProofEvents)
=============================================================================
