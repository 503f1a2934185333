SPECIFICATION Spec
CONSTANTS
  alice = alice  bob = bob  nobody = nobody
  r1 = r1  r2 = r2  c1 = c1  c2 = c2  none = none
  Users <- TwoUsers
  NoUser <- nobody
  Requests <- TwoRequests
  Challenges <- TwoChallenges
  NoChallenge <- none
  TicksPerSecond = 2
  ChallengeTTL = 2
  TokenTTL = 3
  MaxTime = 5
  MaxRestarts = 1
SYMMETRY Symmetry
INVARIANTS
  TypeOK
  SingleUse
  BothFactors
  RestartVoidsLogin
  AcceptedAsAdvertised
PROPERTIES
  NoExpiredLeftBehind
  OneTimeGrantSpec
CHECK_DEADLOCK FALSE
