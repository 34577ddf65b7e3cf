SPECIFICATION AllSpec
CONSTANTS
  Vocabulary <- MCVocabulary
  Files <- MCFiles
  Setups <- MCSetups
  Sentences <- MCSentences
  Counts <- MCCounts
  Lines <- MCLines
  Contexts <- MCContexts
  MaxSteps = 2
  Commands <- MCCommands
  IndexOrder <- MCIndexOrder
INVARIANTS AskingChangesNothing AnswersAreAsNew SumsToOne TaggersRight
CHECK_DEADLOCK FALSE
