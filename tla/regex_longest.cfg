SPECIFICATION TextSpec
CONSTANTS
  Parts = {"regex"}
  Grammars <- MCGrammars
  MaxTokens = 5
  NestedTokens = 1
  InitStack = 3
  MaxDetours = 1
  MaxSize = 4
  MaxText = 3
  Inputs <- LongestInputs
  Extensions <- MCExtensions
  Ops = {"match", "forward", "backward"}
  re_max_failures = 20
INVARIANTS
  RegexLongestMatch
