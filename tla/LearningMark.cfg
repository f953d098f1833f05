CONSTANTS
  Word = {a, b}
  MaxWords = 3
  Free = Free
  MaxViews = 2
  Torn = Torn
SPECIFICATION Spec
PROPERTIES SubmittedStaysMarked
