SPECIFICATION FairSpec
CONSTANTS
  ann = ann  bob = bob  bad = bad  g1 = g1  g2 = g2
  s1 = s1  s2 = s2  r1 = r1  r2 = r2
  Servers <- TwoServers
  Requests <- TwoRequests
  Words <- ThreeWords
  ValidWords <- GoodWords
  GoogleAccounts <- TwoAccounts
  Forms <- FourForms
INVARIANTS
  TypeOK
  WholeVersions
  LoserHasWinner
  AnswersAreTrue
  CheckAgrees
PROPERTIES
  StartEnds
  RegistrationEnds
  RegistrySpec
CHECK_DEADLOCK FALSE
