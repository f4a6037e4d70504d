SPECIFICATION FairSpec
CONSTANTS
  Event <- LifeEvents
  Body <- LifeBody
  Replay <- LifeReplay
  Item = {"i1"}
  Party = {"mfr"}
  Wallet = {"w1", "w2"}
  NoEvent = "0"
  NoItem = NoItem
  NoOwner = ""
  Task = {"t1"}
  Reader = {}
  SigLists <- QuorumOrNot
  M = 2
  Attested <- LifeAttested
  OneShot <- Mints
  Statuses = {"ACTIVE", "REVOKED"}
  MaxPast = 0
  MaxFuture = 1
  MaxNow = 0
  MaxCrashes = 1
INVARIANTS SafeInv NoAcceptedFork AcceptedIsKept ListedChainIsValid
PROPERTIES IsRegister SavedIsAccepted
