SPECIFICATION PluginSpec
CONSTANTS
  Heads <- MCHeads
  Seconds <- MCSeconds
  Listed <- MCListed
  NUM_ARM_REGS = 16
INVARIANTS
  ReadsItsOwnRegister
  EveryRegisterReadable
  TableIndicesInRange
  ImmediatesAsArchitected
  EncodingsDifferForSPOnly
  OnlyAddressAddsCounted
CHECK_DEADLOCK FALSE
