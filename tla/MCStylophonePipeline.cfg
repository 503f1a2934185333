SPECIFICATION FairSpec
CONSTANTS
  thumb = thumb  index = index
  Fingers <- TwoFingers
  RawCapacity = 1
  MappedCapacity = 1
  Width = 24
  Coordinates <- OnAndOffThePad
  MinOctave = 4
  MaxOctave = 4
  InitialOctave = 4
  MaxBatch = 1
  NoEvent = NoEvent
INVARIANTS
  TypeOK
  ClientInStep
  Tuned
PROPERTIES
  ReleasedFallsSilent
