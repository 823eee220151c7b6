CONSTANT MaximumRetry = 3
SPECIFICATION FairSpec
INVARIANTS
  TypeOK
  HandlerHasGroup
  FailIsFinal
PROPERTY BootCompletes
