SPECIFICATION NetworkSpec
CONSTANTS
  Addr = {a1, a2, a3}
  Seeds = {a1}
  DnsAddrs = {a2}
  Gateway = a3
  BootCall = {b1, b2}
  Urls = 2
  MaxAttempts = 2
  Operators = 1
  SponsorKnown = TRUE
  NoPeer = NoPeer
  e1 = e1
  e2 = e2
  n1 = n1
  n2 = n2
  Event <- MCEvent
  NoHash = NoHash
  MaxLength = 4
  MaxEvents = 4
  MaxCheckpoints = 2
  MaxMillis = 1
  o1 = o1
  o2 = o2
  o3 = o3
  o4 = o4
  offer1 = offer1
  offer2 = offer2
  Operator = {o1, o2, o3, o4}
  Founder = {o1, o2, o3}
  Offer = {offer1, offer2}
  Score <- MCScore
  CommitteeSize = 2
  MinSignatures = 1
  InactiveDays = 1
  SponsorDays = 1
  VotingDays = 1
  MaxDay = 3
  Settlement = {t1, t2}
  Member = {m1}
  QuorumSize = 2
  MainNodePercentage = 60
  Amounts = {9}
  Deviations = {0, 1}
  MaxMonth = 2
  MaxRecords = 3
  MaxReports = 2
  NoPayment = NoPayment
CHECK_DEADLOCK FALSE
INVARIANTS
  OutcomeIsTrue
  AnchorBindsEvents
  RefusedStayOut
  BooksBalance
  CreditIsForWork
  SharesFit
PROPERTIES
  RediscoveryKeepsPeers
  CommitteesAreStable
  CallsEnd
