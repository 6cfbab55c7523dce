SPECIFICATION Spec
CONSTANTS
  ByteBits = 1
  Reg <- MCReg
  BoundRegs <- MCBound
  Insn <- ExactInsns
  Effect <- MCEffect
  Conditional <- MCConditional
  Trapping <- MCTrapping
  Blocks <- ExactBlocks
  Results <- MCResults
  MaxRuns = 3
INVARIANTS
  TypeOK
  Accounting
  CsvMatchesHistory
CHECK_DEADLOCK FALSE
