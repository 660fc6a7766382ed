SPECIFICATION Spec
CONSTANTS
  Retentions = {0, 2}
  MaxDay = 4
  MaxBooks = 2
  MaxVersion = 3
INVARIANT ChangedDayIsCovered
PROPERTIES ChangesNeedSnapshot SnapshotsStay
CHECK_DEADLOCK FALSE
