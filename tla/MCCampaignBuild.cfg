SPECIFICATION CampaignSpec
CONSTANTS
  Benches <- MCBenches
  Classes = {"ALU", "ST"}
  MAX_BITS = 2
  CRYPTO_EXCLUDE <- MCExclude
  LettersOf <- MCLetters
  Rows <- MCRows
  Repositories <- MCRepositories
  BuildOrder <- MCBuildOrder
  ByHand <- MCByHand
  MaxStarts = 2
  MaxEdits = 1
  MaxFailures = 0
  MaxInterrupts = 0
INVARIANTS
  BuildsEverything
CHECK_DEADLOCK FALSE
