-------------------------- MODULE OwnershipRegister --------------------------
(***************************************************************************)
(* What one operator promises about an item: its record is a register that *)
(* changes in one atomic step, either to a fresh mint or to the legal      *)
(* successor of its present value, and an event is answered accepted only  *)
(* after the one step in which it took effect (PROTOCOL_SPEC.md:           *)
(* "Deterministic & Final").  An effect may stay without an answer.        *)
(***************************************************************************)
EXTENDS EventLog

VARIABLES
   item,     \* [Item -> record or NoItem]
   done,     \* events that have taken effect
   answered  \* events whose callers were told so

Init == item = [i \in Item |-> NoItem] /\ done = {} /\ answered = {}

\* A mint starts, or starts over, the record of its item.
Mint(e) ==
   /\ Body[e].type = "ITEM_MINTED"
   /\ item' = [item EXCEPT ![Body[e].item] = Minted(e)]
   /\ done' = done \cup {e}
   /\ UNCHANGED answered

\* A chain event extends the record it names as its predecessor.
Advance(e) ==
   LET i == Body[e].item IN
   /\ item[i] # NoItem
   /\ ValidateTransition(item[i], Body[e])
   /\ item' = [item EXCEPT ![i] = ApplyEvent(item[i], e, Body[e])]
   /\ done' = done \cup {e}
   /\ UNCHANGED answered

\* An event that does not move an item is only noted.
Note(e) ==
   /\ Body[e].type \in {"ITEM_AUTHENTICATED", "AUTHENTICATOR_REGISTERED"}
   /\ done' = done \cup {e}
   /\ UNCHANGED <<item, answered>>

\* The caller of an event that has taken effect gets its answer.
Answer(e) ==
   /\ e \in done
   /\ answered' = answered \cup {e}
   /\ UNCHANGED <<item, done>>

Next == \E e \in Event : Mint(e) \/ Advance(e) \/ Note(e) \/ Answer(e)

Spec == Init /\ [][Next]_<<item, done, answered>>
=============================================================================
