SPECIFICATION TextSpec
CONSTANTS
  Parts = {"yacc", "regex"}
  Grammars <- MCGrammars
  MaxTokens = 5
  NestedTokens = 1
  InitStack = 3
  MaxDetours = 1
  MaxSize = 4
  MaxText = 3
  Inputs <- MCInputs
  Extensions <- MCExtensions
  Ops = {"match", "forward", "backward"}
  re_max_failures = 20
INVARIANTS
  GrammarTablesExact
  ParserLanguageExact
  ParserValuesFaithful
  ParserStackSound
  
  RegexSearchSound
  RegexPopsWhatWasPushed
