SPECIFICATION FairSpec
CONSTANTS
  Fingers <- TwoFingers
  MaxTouches = 1
  TouchStates <- TouchingOrLifted
INVARIANTS
  TypeOK
  FaithfulPoll
  PollInv
PROPERTIES
  LifecycleSpec
  GoneFingerReleased
CHECK_DEADLOCK FALSE
