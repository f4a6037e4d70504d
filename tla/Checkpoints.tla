---------------------------- MODULE Checkpoints ----------------------------
(***************************************************************************)
(* Checkpoints of the event log, committed to in Bitcoin transactions      *)
(* (network/bitcoin-anchor.ts).  A checkpoint holds the root of a Merkle   *)
(* tree over its events; a commitment is the hash of some of its fields.   *)
(*                                                                         *)
(* A hash is taken to be what it is made from, so hashes are equal when    *)
(* what they hash is: a node's is <<left, right>>, an event's is made from *)
(* a part of it only.  hashEvent writes the event with the names of its    *)
(* top level as the list of keys to keep, so the keys nested in its fields *)
(* (the content of "data", the members of "signatures") are not hashed,    *)
(* unless the top level has a key of that name.  The event's own hash is   *)
(* one of the values kept; nothing here computes it again.                 *)
(*                                                                         *)
(* The class cannot make the transaction: anchorCheckpoint finalizes an    *)
(* input that nobody signed, which throws.  The transaction is an action   *)
(* of the operator's wallet, with the commitment the class builds.         *)
(***************************************************************************)
EXTENDS Naturals, Sequences, FiniteSets

CONSTANTS
   Event,           \* [top: what its hash keeps, nested: what its hash leaves out]
   NoHash,          \* the root of no events, no previous checkpoint
   MaxLength,       \* bound: events in a checkpoint
   MaxEvents,       \* bound: events in all of them
   MaxCheckpoints,  \* bound
   MaxMillis        \* bound: the clock

ASSUME CheckpointAssumption ==
   /\ \A e \in Event : e = [top |-> e.top, nested |-> e.nested] /\ e.top # NoHash
   /\ {MaxLength, MaxEvents, MaxCheckpoints, MaxMillis} \subseteq Nat

EventLists == UNION {[1..n -> Event] : n \in 0..MaxLength}

VARIABLES
   checkpoints,   \* the checkpoints in the order they were made; an id is an index
   pending,       \* ids of pendingCheckpoints
   chain,         \* [id -> the commitment in a Bitcoin transaction]
   millis         \* the clock

checkpointVars == <<checkpoints, pending, chain, millis>>

CheckpointInit ==
   /\ checkpoints = <<>>
   /\ pending = {}
   /\ chain = <<>>
   /\ millis = 0

CheckpointTypeOK ==
   /\ Len(checkpoints) <= MaxCheckpoints /\ Len(chain) = Len(checkpoints)
   /\ pending \subseteq DOMAIN checkpoints
   /\ \A i \in DOMAIN checkpoints :
         checkpoints[i].cp.id = i /\ checkpoints[i].events \in EventLists
   /\ millis \in 0..MaxMillis
-----------------------------------------------------------------------------
\* One level of the tree; the last hash of an odd level is paired with itself.
Paired(level) ==
   [i \in 1..((Len(level) + 1) \div 2) |->
      <<level[2 * i - 1], level[IF 2 * i <= Len(level) THEN 2 * i ELSE 2 * i - 1]>>]

BuildMerkleRoot(hashes) ==
   LET level[d \in 0..Len(hashes)] ==
          IF d = 0 THEN hashes
          ELSE IF Len(level[d - 1]) = 1 THEN level[d - 1] ELSE Paired(level[d - 1])
   IN  IF hashes = <<>> THEN NoHash ELSE level[Len(hashes)][1]

HashEvent(e) == <<e.top>>

\* anchored: the transaction is noted.
Checkpoint(id, events, prev, at) ==
   [id |-> id, root |-> BuildMerkleRoot([i \in DOMAIN events |-> HashEvent(events[i])]),
    prev |-> prev, count |-> Len(events), at |-> at, anchored |-> FALSE]

(* The number of events is not committed to (a seeded bug). *)
HashWithoutCount(cp) == [id |-> cp.id, at |-> cp.at, root |-> cp.root, prev |-> cp.prev]

HashCheckpoint(cp) ==
   [id |-> cp.id, at |-> cp.at, count |-> cp.count, root |-> cp.root, prev |-> cp.prev]

\* The places of all the lists.
Checkpointed == UNION {{i} \X DOMAIN checkpoints[i].events : i \in DOMAIN checkpoints}

\* The id holds a counter; prev is the caller's: no earlier one, or any.
CreateCheckpoint(events, prev) ==
   /\ Len(checkpoints) < MaxCheckpoints
   /\ Cardinality(Checkpointed) + Len(events) <= MaxEvents
   /\ LET id == Len(checkpoints) + 1
      IN  /\ checkpoints' = Append(checkpoints,
                [cp |-> Checkpoint(id, events, prev, millis), events |-> events])
          /\ pending' = pending \cup {id}
          /\ chain' = Append(chain, NoHash)
   /\ UNCHANGED millis

\* The commitment starts with the hash; the signatures after it are not read.
BuildCommitmentData(id) == HashCheckpoint(checkpoints[id].cp)

WalletAnchors(id) ==
   /\ chain[id] = NoHash
   /\ chain' = [chain EXCEPT ![id] = BuildCommitmentData(id)]
   /\ UNCHANGED <<checkpoints, pending, millis>>

MarkCheckpointAnchored(id) ==
   /\ id \in pending /\ chain[id] # NoHash
   /\ checkpoints' = [checkpoints EXCEPT ![id].cp.anchored = TRUE]
   /\ pending' = pending \ {id}
   /\ UNCHANGED <<chain, millis>>

VerifyCheckpointAnchor(cp, commitment) == HashCheckpoint(cp) = commitment

MillisTick == millis < MaxMillis /\ millis' = millis + 1
              /\ UNCHANGED <<checkpoints, pending, chain>>

\* The first of the checkpoints that have the highest time.
Latest ==
   CHOOSE i \in DOMAIN checkpoints : \A j \in DOMAIN checkpoints :
      /\ checkpoints[j].cp.at <= checkpoints[i].cp.at
      /\ checkpoints[j].cp.at = checkpoints[i].cp.at => i <= j

\* A caller chains a checkpoint to the latest one.
Previous == IF checkpoints = <<>> THEN NoHash ELSE HashCheckpoint(checkpoints[Latest].cp)

CheckpointStep ==
   \/ \E events \in EventLists : CreateCheckpoint(events, Previous)
   \/ \E id \in DOMAIN checkpoints : WalletAnchors(id) \/ MarkCheckpointAnchored(id)
   \/ MillisTick

CheckpointSpec == CheckpointInit /\ [][CheckpointStep]_checkpointVars
-----------------------------------------------------------------------------
\* What the hashes keep of a list of events.
HashedParts(events) == [i \in DOMAIN events |-> events[i].top]

(* A transaction anchors what the hashes keep of one list of events, and no  *)
(* more: the checkpoint it was made for is verified against it for good,     *)
(* also after the anchoring is noted in it; a checkpoint rebuilt from a list *)
(* of other events, of more, of fewer or in another order is not; and one    *)
(* rebuilt from events that differ only in what is nested in them is.        *)
AnchorBindsEvents ==
   \A id \in DOMAIN checkpoints :
      LET cp == checkpoints[id].cp
      IN  chain[id] # NoHash =>
             /\ VerifyCheckpointAnchor(cp, chain[id])
             /\ \A events \in EventLists :
                   VerifyCheckpointAnchor(Checkpoint(id, events, cp.prev, cp.at), chain[id])
                      <=> HashedParts(events) = HashedParts(checkpoints[id].events)
=============================================================================
