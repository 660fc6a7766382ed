SPECIFICATION DeviceJobsSpec
CONSTANTS
  b1 = b1  b2 = b2  i1 = i1  i2 = i2
  Book <- TwoBooks
  MaxBatch = 2
  Stem <- Stems
  Title <- Titles
  DeviceOrder <- DefaultOrder
  Libraries <- Mixed
  Identity <- TwoIdentities
  Damaged <- Second
  MaxChanges = 2
SYMMETRY IdentitiesAlike
INVARIANTS JobInv BadgesFollow NativeTileGoes HandlersAgreeOnName
