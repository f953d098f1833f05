CONSTANTS
  Word = {a, b}
  MaxWords = 3
  Free = Free
  MaxViews = 2
  Torn = Torn
SPECIFICATION Spec
INVARIANTS ListedHasState SnapshotHasStates SnapshotCurrent ListedIsFlagged
PROPERTIES NoDuplicateFromStore
