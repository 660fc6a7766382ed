SPECIFICATION RefreshSpec
CONSTANTS
  b1 = b1  b2 = b2
  Book <- TwoBooks
  MaxBatch = 2
  Field <- SomeFields
  Hints <- SomeHints
SYMMETRY TwoAlike
INVARIANT RefreshTypeOK
PROPERTIES FillBlanksKeeps OutcomeTellsFields
