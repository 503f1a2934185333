SPECIFICATION FairSpec
CONSTANTS
  c1 = c1  c2 = c2
  Clients <- TwoClients
  Run = Run
  NoClient = NoClient
  Other = Other
  MinOctave = 3
  MaxOctave = 3
PROPERTIES
  RunReturns
CHECK_DEADLOCK FALSE
