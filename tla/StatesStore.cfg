CONSTANTS
  WordId = {1, 2, 3}
  Due = {0, 1, 2}
  Body = {"fresh", "reviewed"}
  NoState = NoState
  Now = {0, 1}
  Limit = {0, 1, 2}
SPECIFICATION Spec
INVARIANTS IndexMatches
PROPERTIES MapSpec
