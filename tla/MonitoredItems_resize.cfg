SPECIFICATION Spec
CONSTANTS
  Depth = 2
  NItems = 1
  MaxLinks = 0
  Node = {n1}
  Value = {0, 1}
  Texts = {}
  Limits = {0}
  Sizes = {1, 2}
  Discards = {TRUE}
  Deadbands = {0}
  Triggers = {"value"}
  Modes = {"reporting"}
  Created = {1}
  MaxId = 2
  MaxSteps = 2
PROPERTY OnlyReportsSent
