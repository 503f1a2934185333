SPECIFICATION Spec
CONSTANTS
  synths = synths  melodies = melodies
  r1 = r1  r2 = r2  id1 = id1  id2 = id2  organ = organ
  Collections <- TwoCollections
  Melodies <- OneOfMelodies
  Sounds <- OneSound
  Absent = Absent  Invalid = Invalid
  Contents <- ThreeMelodies
  ItemIds <- TwoIds
  NoId = NoId
  Requests <- TwoRequests
  NoRequest = NoRequest
  MaxItems = 4
SYMMETRY Symmetry
CHECK_DEADLOCK FALSE
PROPERTIES
  DeletesOnlyTheItem
