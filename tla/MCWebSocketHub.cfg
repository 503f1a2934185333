SPECIFICATION Spec
CONSTANTS
  c1 = c1  c2 = c2
  Clients <- TwoClients
  Run = Run
  NoClient = NoClient
  Other = Other
  MinOctave = 3
  MaxOctave = 4
SYMMETRY Symmetry
INVARIANTS
  TypeOK
  HubMembers
  NobodyForgotten
  OctaveInStep
CHECK_DEADLOCK FALSE
