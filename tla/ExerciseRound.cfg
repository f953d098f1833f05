CONSTANTS
  Word = {a, b}
  MaxWords = 3
  Free = Free
  Shape <- MCShape
  RoundSize = 2
  MaxViews = 2
SYMMETRY Symmetry
SPECIFICATION Spec
INVARIANTS RefsFresh PointsMatch
PROPERTIES GradedOnce
