SPECIFICATION AllSpec
CONSTANTS
  Vocabulary <- MCVocabulary
  Files <- MCFiles
  Setups <- LoglinearSetups
  Sentences <- MCSentences
  Counts <- MCCounts
  Lines <- MCLines
  Contexts <- MCContexts
  MaxSteps = 2
  Commands = {}
  IndexOrder <- MCIndexOrder
INVARIANTS ContextStaysTheSame
CHECK_DEADLOCK FALSE
