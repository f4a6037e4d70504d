SPECIFICATION Spec
CONSTANTS
  Offer = {"o1"}
  Run = {"r1", "r2"}
  RealLightning = FALSE
  Expiry = 1
  LastCreate = 0
  MaxNow = 2
  MaxAddress = 0
  MaxCrashes = 0
PROPERTIES PaidIsKept
