SPECIFICATION FairSpec
CONSTANTS
  kick = kick  conn1 = conn1  conn2 = conn2
  Escape = Escape
  Keys <- TwoKeys
  Zero = Zero
  KEY_BUFFER_SIZE = 3
  MaxPresses = 4
  Conns <- TwoConns
INVARIANTS
  TypeOK
  InOrder
  OrderlyReturn
PROPERTIES
  InputsGivenBack
  RunReturns
CHECK_DEADLOCK FALSE
