------------------------- MODULE MCNetworkServices -------------------------
(***************************************************************************)
(* What the operators' network does beside the item log, in parts that     *)
(* share no state: finding peers, anchoring checkpoints, admitting         *)
(* operators and drawing committees, and paying for settlements.  A        *)
(* behaviour has steps of one of them, the others stay where they begin.   *)
(***************************************************************************)
EXTENDS Bootstrap, Checkpoints, Committees, Earnings, TLC

CONSTANTS o1, o2, o3, o4, offer1, offer2, e1, e2, n1, n2

\* Two events that differ only in what is nested in them, and a third.
MCEvent == {[top |-> e1, nested |-> n1], [top |-> e1, nested |-> n2],
            [top |-> e2, nested |-> n1]}

\* The order of the operators for each of the two offers.
MCScore == [p \in {offer1, offer2} \X {o1, o2, o3, o4} |->
   IF p[1] = offer1
   THEN CASE p[2] = o1 -> 0 [] p[2] = o2 -> 1 [] p[2] = o3 -> 2 [] p[2] = o4 -> 3
   ELSE CASE p[2] = o1 -> 3 [] p[2] = o2 -> 1 [] p[2] = o3 -> 5 [] p[2] = o4 -> 0]

NetworkInit == BootInit /\ CheckpointInit /\ CommitteeInit /\ EarningsInit

NetworkNext ==
   \/ CheckpointInit /\ CommitteeInit /\ EarningsInit /\ BootStep
      /\ UNCHANGED <<checkpointVars, committeeVars, earningVars>>
   \/ BootInit /\ CommitteeInit /\ EarningsInit /\ CheckpointStep
      /\ UNCHANGED <<bootVars, committeeVars, earningVars>>
   \/ BootInit /\ CheckpointInit /\ EarningsInit /\ CommitteeStep
      /\ UNCHANGED <<bootVars, checkpointVars, earningVars>>
   \/ BootInit /\ CheckpointInit /\ CommitteeInit /\ EarningsStep
      /\ UNCHANGED <<bootVars, checkpointVars, committeeVars>>

networkVars == <<bootVars, checkpointVars, committeeVars, earningVars>>

\* A call under way is a step of the first part, which is then the one that
\* moves.
NetworkSpec ==
   /\ NetworkInit /\ [][NetworkNext]_networkVars
   /\ \A b \in BootCall : WF_bootVars(CallStep(b))
=============================================================================
