SPECIFICATION ParsingSpec
CONSTANTS
  Sources <- AllSources
  IntegerDigits = 3
  QuadLength = 2
INVARIANTS
  ReadTwiceAlike
  TreeTotal
  TriviaOwned
  SilentOnTheGrammar
  TemplatesRead
PROPERTY
  ReadToTheEnd
CHECK_DEADLOCK FALSE
