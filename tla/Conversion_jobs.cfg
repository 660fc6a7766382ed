SPECIFICATION ConversionSpec
CONSTANTS
  b1 = b1  b2 = b2
  Book <- TwoBooks
  MaxBatch = 2
  MaxLosses = 1
SYMMETRY TwoAlike
INVARIANT AutoconvertCompletes
PROPERTIES FailureLeavesBook
