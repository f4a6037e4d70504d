SPECIFICATION Spec
CONSTANTS
  Offer = {o1, o2}
  Run = {r1, r2}
  RealLightning = FALSE
  Expiry = 0
  LastCreate = 1
  MaxNow = 1
  MaxAddress = 1
  MaxCrashes = 1
  o1 = o1
  o2 = o2
  r1 = r1
  r2 = r2
SYMMETRY OfferSymmetry
CHECK_DEADLOCK FALSE
INVARIANTS NoAddressReuse PaidByOwnMoney PendingIsWatched
