SPECIFICATION MgrLiveSpec
CONSTANTS
  RING_N = 4
  NBlocks = 3
  BUF_BYTES = 256
  Job <- MCJob
  RES_PER_DESC = 2
  result_tab <- MCResults
  OUT_N = 4
  NCHAN = 2
  RecalMask = 1
  MaxFrames = 6
  MaxFull = 1
INVARIANTS
  RingTypeOK
  Agreement
  StagedAsDescribed
  NoLostInterrupt
  MgrTypeOK
  FramesConserved
  ReportsConserved
PROPERTIES
  InFlightKept
  ImplementsJobQueue
  EveryJobRetired
  DropsOldestOnly
