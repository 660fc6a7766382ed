SPECIFICATION Spec
CONSTANTS
  i1 = i1  i2 = i2  i3 = i3
  b1 = b1  b2 = b2
  Id <- SomeIds
  Book <- TwoBooks
SYMMETRY Alike
INVARIANTS HandleInv SidecarsFollow ReportsHold
PROPERTY OthersUntouched
