CONSTANTS
  MaxMore = 4
  MaxLevel = 2
  MaxDecls = 2
  InitGroupSize = 2
SPECIFICATION SyntaxSpec
INVARIANTS
  MarkupIsGrammar
  PrologIsGrammar
PROPERTIES
  TokenSettles
  FirstDeclarationBinds
  FirstAttributeBinds
CHECK_DEADLOCK FALSE
