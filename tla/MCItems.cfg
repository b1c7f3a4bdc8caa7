SPECIFICATION PartSpec
CONSTANTS
  Depth = 2
  NItems = 2
  MaxLinks = 1
  Node = {n1}
  Value = {0, 1, 3}
  Texts = {3}
  Limits = {0}
  Sizes = {2}
  Discards = {TRUE}
  Deadbands = {0, 2}
  Triggers = {"status", "value"}
  Modes = {"disabled", "reporting"}
  Created = {1}
  MaxId = 2
  MaxSteps = 2
INVARIANTS TypeOK ToldCurrent
PROPERTIES QueuesImplemented ReportsInTurn
