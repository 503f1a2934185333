SPECIFICATION Spec
CONSTANTS
  global = global  dock = dock
  missionControl = missionControl  pinch = pinch  autohide = autohide
  Domains <- TwoDomains
  Dock = dock
  GestureKeys <- TwoGestures
  DockKeys <- OneDockKey
  OtherKeys <- OneOtherKey
  MaxStarts = 2
INVARIANTS
  OnlyTemporarily
CHECK_DEADLOCK FALSE
