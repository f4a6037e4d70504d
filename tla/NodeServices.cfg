SPECIFICATION ServicesSpec
CONSTANTS
  PeerId = {p1, p2}
  Sock = {c1, c2}
  NoSock = NoSock
  MaxPeers = 2
  CanDial = TRUE
  Key = {k1}
  Challenge = {l1}
  Session = {s1}
  Secret = {x1, x2}
  Nonce = {n1, n2}
  AuthCall = {t1, t2}
  Missing = Missing
  ChallengeLife = 0
  SessionLife = 0
  NonceLimit = 1
  MaxTime = 1
  MaxActions = 2
  Main = Main
  Node = {Main, node}
  Holder = {holder}
  Token = {tok1, tok2}
  ItemData = {d1, d2}
  NoToken = NoToken
  QuorumM = 2
  MaxLines = 5
  Wallet = {w1, w2}
  FirstOwner = w1
  Sale = {sale1, sale2}
  Prices = {1000, 300001}
  Seats = 2
  NoWallet = NoWallet
SYMMETRY Symmetry
CHECK_DEADLOCK FALSE
INVARIANTS
  ServicesTypeOK
  TableIsLive
  PeerDataIsOwn
  EnabledSecretWasProven
  OneLoginPerChallenge
  SecondFactorChecked
  NonceSpentOnce
  LedgerIsAuditable
  SoldByOwnerAndPaid
  EscrowIsSolvent
PROPERTIES
  EmbeddedDataIsPermanent
