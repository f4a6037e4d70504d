SPECIFICATION FairSpec
CONSTANTS
  Offer = {"o1"}
  Run = {"r1", "r2"}
  RealLightning = TRUE
  Expiry = 1
  LastCreate = 0
  MaxNow = 2
  MaxAddress = 0
  MaxCrashes = 0
PROPERTIES PaymentsSettle
