-------------------------- MODULE MCOperatorNetwork --------------------------
(***************************************************************************)
(* Small universes of events for OperatorNetwork, about one item: m mints, *)
(* a and a2 are rival assignments, l1 and l2 rival locks after a, n is an  *)
(* attestation, r is the registration of the manufacturer, which carries   *)
(* the manufacturer's id in the place of an item.                          *)
(***************************************************************************)
EXTENDS OperatorNetwork, TLC

Ev(type, height, prev) ==
   [type |-> type, item |-> "i1", height |-> height, prev |-> prev, time |-> 1,
    wallet |-> "w1", party |-> "mfr"]

BodyOf == [e \in {"m", "a", "a2", "l1", "l2", "n", "r"} |->
   CASE e = "m"  -> Ev("ITEM_MINTED", 2, "0")
     [] e = "a"  -> Ev("ITEM_ASSIGNED", 3, "m")
     [] e = "a2" -> Ev("ITEM_ASSIGNED", 3, "m")
     [] e = "l1" -> Ev("ITEM_LOCKED", 4, "a")
     [] e = "l2" -> Ev("ITEM_LOCKED", 4, "a")
     [] e = "n"  -> Ev("ITEM_AUTHENTICATED", 3, "m")
     [] e = "r"  -> [Ev("MANUFACTURER_REGISTERED", 1, "0") EXCEPT !.item = "mfr"]]

MCBody == [e \in Event |-> BodyOf[e]]

MCReplay ==
   LET replay[e \in Event] ==
          LET b == MCBody[e] IN
          IF b.type = "ITEM_MINTED" THEN MintedItem(e, b, NoOwner)
          ELSE IF b.type \notin ChainType \/ b.prev \notin Event THEN NoItem
          ELSE IF replay[b.prev] = NoItem THEN NoItem
          ELSE IF ValidateTransition(replay[b.prev], b)
               THEN ApplyEvent(replay[b.prev], e, b) ELSE NoItem
   IN replay

\* No property names an operator.
OperatorSymmetry == Permutations(Operator)
=============================================================================
