SPECIFICATION Spec
CONSTANTS
  Event <- RaceEvents
  Body <- RaceBody
  Replay <- RaceReplay
  Item = {"i1"}
  Party = {"mfr"}
  Wallet = {"w1", "w2"}
  NoEvent = "0"
  NoItem = NoItem
  NoOwner = ""
  Task = {t1, t2}
  Reader = {}
  SigLists <- QuorumOnly
  M = 2
  Attested <- RaceAttested
  OneShot <- Mints
  Statuses = {"ACTIVE"}
  MaxPast = 0
  MaxFuture = 1
  MaxNow = 0
  MaxCrashes = 1
  t1 = t1
  t2 = t2
SYMMETRY TaskSymmetry
INVARIANTS TypeOK ItemIsReplay StoredEventsReplay AcceptedIsStored
