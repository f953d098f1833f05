CONSTANTS
  WordId = {1, 2, 3}
  State <- MCState
  NoState = NoState
  Foreign = Foreign
  Now <- MCNow
  Limit = {0, 1}
  Modes = 4
  MaxReviews = 7
  Search = Search
  Learning = Learning
  WordField = WordField
  Translation = Translation
  Buffer = {Search, Learning, WordField, Translation}
  Shown <- MCShown
  Typed <- MCTyped
  MaxSize = 5
  MaxTexts = 3
  MaxCodepoints = 12
  Lexeme <- MCLexeme
  Spare <- MCSpare
  Start = {0, 28}
  AtlasSize = 8
  ShelfMax = 2
  GlyphPoolMax = 8
  GlyphHashSize = 16
  FastAsciiMax = 4
  FastFontMax = 2
  MaxFonts = 3
  MaxQuads = 2
  MaxVerts = 2
  Picture <- MCPicture
  Text <- MCText
  Warm <- MCWarm
  FirstCode = 0
  LastCode = 2
  German <- MCGerman
  WarmCount = 4
  Dictionary <- MCDictionary
  Query <- MCQuery
  Completes <- MCCompletes
  Short = {"a"}
  LongText <- MCLongText
  Link <- MCLink
  TopOfMatches = 2
  Wanted = {1, 3}
  Field = {Search, WordField, Translation}
  Page <- MCPage
  Content = {NoText, Word}
  NoText = NoText
  Unfocused = Unfocused
  Place = {0, 2}
  SwipeThreshold = 1
  LongTapThreshold = 1
  AnimationDuration = 2
  MaxFingers = 2
  MaxPresses = 2
  MaxClock = 4
SPECIFICATION SeqSpec
CHECK_DEADLOCK FALSE
INVARIANTS WebAgrees ToldIsDurable LadderSound WholeCharacters NewsIsHeard FocusIsShown AnswersSpellTheWord
  OptionsDiffer GlyphsApart DrawnIsUploaded EnoughWords LinkFindsWord ExactFirst
  ElementInStep OneAnswer
