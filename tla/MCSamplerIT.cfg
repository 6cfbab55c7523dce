SPECIFICATION Spec
CONSTANTS
  ByteBits = 1
  Reg <- MCReg
  BoundRegs <- MCBound
  Insn <- ItInsns
  Effect <- MCEffect
  Conditional <- ItConditional
  Trapping <- NoTraps
  Blocks <- ItBlocks
  Results <- MCResults
  MaxRuns = 2
INVARIANT
  OnlyResultsMeasured
CHECK_DEADLOCK FALSE
