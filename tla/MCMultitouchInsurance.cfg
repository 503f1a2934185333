SPECIFICATION Spec
CONSTANTS
  Fingers <- TwoFingers
  MaxTouches = 1
  TouchStates <- TouchingOrLifted
PROPERTIES
  InsuranceOnlyWhenVanished
CHECK_DEADLOCK FALSE
