SPECIFICATION Spec
CONSTANTS
  c1 = c1  c2 = c2
  Name <- TwoNames
  Content <- TwoContents
  MaxFiles = 2
  MaxSize = 3
  FileLimit = 2
  TotalLimit = 3
SYMMETRY TwoAlike
INVARIANTS SpoolInv LimitsDecide NoUploadDropped
CHECK_DEADLOCK FALSE
