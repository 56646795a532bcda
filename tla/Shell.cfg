SPECIFICATION Spec
CONSTANTS
  Argvs <- SmallArgvs
  MaxDepth = 3
  MaxLoadArgs = 2
  MaxLines = 2
  QuitCodes <- SomeCodes
INVARIANTS
  TypeOK
  ArgsInOrder
  StatusTellsFailure
  ReportedOnce
  StackShape
PROPERTIES
  PromptIffAsked
  LoadStopsAtFailure
  ProcessEnds
  RunsArguments
