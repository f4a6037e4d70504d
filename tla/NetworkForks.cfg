SPECIFICATION Spec
CONSTANTS
  Operator = {o1, o2, o3}
  M = 2
  Event = {"m", "a", "l1", "l2"}
  Body <- MCBody
  Replay <- MCReplay
  OneShot = {"m"}
  Item = {"i1"}
  Party = {"mfr"}
  Wallet = {"w1"}
  NoEvent = "0"
  NoItem = NoItem
  NoOwner = ""
SYMMETRY OperatorSymmetry
INVARIANTS OperatorsAgree
