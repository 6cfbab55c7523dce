SPECIFICATION CheckSpec
CONSTANTS
  WARN_HI = 600
  WARN_LO = 400
  ALARM_HI = 1200
  ALARM_LO = 900
  DEBOUNCE_N = 3
  NCH = 4
  ADC_MAX = 4095
  PWM_MAX = 1023
  TICKS = 10000
  kp <- MCkp
  ki <- MCki
  kd <- MCkd
  gain <- MCgain
  lag <- MClag
  span <- MCspan
  full_scale_mv = 3300
  sp_profile <- MCprofile
  load_tab <- MCload
  noise_tab <- MCnoise
  bench_expected <- MCPidExpected
  RING_N = 16
  NBlocks = 8
  BUF_BYTES = 256
  Job <- MCJob
  RES_PER_DESC = 8
  result_tab <- MCResults
  OUT_N = 32
  NCHAN = 4
  RecalMask = 31
  MaxFrames = 1536
  MaxFull = 1536
  FRAMES = 1536
  QUEUE_DEPTH = 6
  accel_expected <- MCAccelExpected
INVARIANTS
  CheckTellsResult
  ArithmeticInRange
  MostlyUnclipped
  KeepsUp
PROPERTY
  CheckEnds
CHECK_DEADLOCK FALSE
