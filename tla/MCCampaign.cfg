SPECIFICATION CampaignSpec
CONSTANTS
  Benches <- MCBenches
  Classes = {"ALU", "ST"}
  MAX_BITS = 2
  CRYPTO_EXCLUDE <- MCExclude
  LettersOf <- MCLetters
  Rows <- MCRows
  Repositories <- MCRepositories
  BuildOrder <- MCBuildOrder
  ByHand <- MCByHand
  MaxStarts = 2
  MaxEdits = 1
  MaxFailures = 1
  MaxInterrupts = 1
INVARIANTS
  CampaignTypeOK
  SummaryTellsAll
  ReportStaysTrue
  NoEmulatorLeftBehind
  OnlyThisRun
  TargetWithinAll
  CombinedIsSum
  PercentilesAsDocumented
  DeliversForSeveral
PROPERTY
  EveryScriptEnds
CHECK_DEADLOCK FALSE
