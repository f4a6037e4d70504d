SPECIFICATION Spec
CONSTANTS
  Event <- ProofEvents
  Body <- ProofBody
  Replay <- ProofReplay
  Item = {"i1"}
  Party = {"mfr", "auth"}
  Wallet = {"w1", "w2"}
  NoEvent = "0"
  NoItem = NoItem
  NoOwner = ""
  Task = {"t1"}
  Reader = {"r1"}
  SigLists <- QuorumOnly
  M = 2
  Attested <- ProofAttested
  OneShot <- Mints
  Statuses = {"ACTIVE"}
  MaxPast = 0
  MaxFuture = 1
  MaxNow = 2
  MaxCrashes = 1
INVARIANTS ProofIsComplete
