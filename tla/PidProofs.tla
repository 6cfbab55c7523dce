------------------------------ MODULE PidProofs ------------------------------
(***************************************************************************)
(* Pid and Supervisor for every value of their parameters.  The supervision*)
(* of a channel holds a state for DEBOUNCE_N samples at least, for any     *)
(* thresholds in order and any errors.  The controller keeps its signals in*)
(* range and its products in 32 bits for all gains an int16_t can hold and *)
(* all setpoints, loads and noise, not only the ones of the benchmark.     *)
(***************************************************************************)
EXTENDS PidTwice, Supervisor, TLAPS

-----------------------------------------------------------------------------
(* The supervision of a channel.                                           *)

(* The counter never runs ahead of the samples since the last change, and  *)
(* in the outer states, where only one change is possible, it counts the   *)
(* samples that spoke for it in a row.                                     *)
SupInv ==
  /\ SupTypeOK
  /\ debounce <= since
  /\ agreeing <= debounce
  /\ state # ST_WARN => agreeing = debounce
  /\ agreeing > 0 => Target(state, aerr) # state

LEMMA TargetCases ==
  ASSUME NEW s \in SupState, NEW e \in Nat
  PROVE  /\ Target(s, e) \in SupState
         /\ Target(s, e) # s => Target(s, e) - s \in {-1, 1}
         /\ s # ST_WARN /\ Target(s, e) # s => Target(s, e) = ST_WARN
BY DEF Target, SupState, ST_OK, ST_WARN, ST_ALARM

(* What one sample does, branch by branch.                                 *)
LEMMA SampleCases ==
  ASSUME SupInv, Sample
  PROVE  LET to == Target(state, aerr') IN
    \/ /\ to = state
       /\ state' = state /\ debounce' = 0 /\ agreeing' = 0
    \/ /\ to # state /\ debounce + 1 >= DEBOUNCE_N
       /\ state' = to /\ debounce' = 0 /\ agreeing' = 0 /\ since' = 0
    \/ /\ to # state /\ debounce + 1 < DEBOUNCE_N
       /\ state' = state /\ debounce' = debounce + 1
       /\ agreeing' = IF agreeing > 0 /\ to = Target(state, aerr) THEN agreeing + 1 ELSE 1
<1> DEFINE to == Target(state, aerr')
<1>1. debounce \in Nat /\ DEBOUNCE_N \in Nat
  BY HysteresisAssumption DEF SupInv, SupTypeOK
<1>2. CASE to = state
  BY <1>2 DEF Sample, Supervise
<1>3. CASE to # state /\ debounce + 1 >= DEBOUNCE_N
  BY <1>3 DEF Sample, Supervise
<1>4. CASE to # state /\ ~(debounce + 1 >= DEBOUNCE_N)
  BY <1>1, <1>4 DEF Sample, Supervise
<1> QED
  BY <1>2, <1>3, <1>4

LEMMA SupInvariant == Spec => []SupInv
<1>1. Init => SupInv
  BY HysteresisAssumption DEF Init, SupInv, SupTypeOK, SupState, ST_OK, ST_WARN
<1>2. SupInv /\ [Sample]_supVars => SupInv'
  <2> SUFFICES ASSUME SupInv, [Sample]_supVars PROVE SupInv'
    OBVIOUS
  <2>1. CASE Sample
    <3> DEFINE to == Target(state, aerr')
    <3>1. /\ state \in SupState /\ debounce \in 0 .. DEBOUNCE_N - 1
          /\ agreeing \in 0 .. DEBOUNCE_N /\ since \in 0 .. DEBOUNCE_N
          /\ DEBOUNCE_N \in Nat \ {0}
          /\ debounce <= since /\ agreeing <= debounce
      BY HysteresisAssumption DEF SupInv, SupTypeOK
    <3>2. aerr' \in Errors /\ aerr' \in Nat
      BY <2>1, SupervisorAssumption DEF Sample
    <3>3. to \in SupState /\ (state # ST_WARN /\ to # state => to = ST_WARN)
      BY <3>1, <3>2, TargetCases
    <3>4. since' = IF state' # state THEN 0 ELSE IF since < DEBOUNCE_N THEN since + 1 ELSE since
      BY <2>1 DEF Sample
    <3>5. CASE to = state
      <4>1. state' = state /\ debounce' = 0 /\ agreeing' = 0
        BY <2>1, <3>5, SampleCases
      <4>2. since' \in 0 .. DEBOUNCE_N
        BY <3>1, <3>4, <4>1
      <4> QED
        BY <3>1, <3>2, <4>1, <4>2 DEF SupInv, SupTypeOK
    <3>6. CASE to # state /\ debounce + 1 >= DEBOUNCE_N
      <4>1. state' = to /\ debounce' = 0 /\ agreeing' = 0 /\ since' = 0
        BY <2>1, <3>6, SampleCases, <3>1
      <4> QED
        BY <3>1, <3>2, <3>3, <4>1 DEF SupInv, SupTypeOK
    <3>7. CASE to # state /\ debounce + 1 < DEBOUNCE_N
      <4>1. /\ state' = state /\ debounce' = debounce + 1
            /\ agreeing' = IF agreeing > 0 /\ to = Target(state, aerr) THEN agreeing + 1 ELSE 1
        BY <2>1, <3>7, SampleCases, <3>1
      <4>2. since' \in 0 .. DEBOUNCE_N /\ debounce' <= since'
        BY <3>1, <3>4, <3>7, <4>1
      <4>3. agreeing' \in 0 .. DEBOUNCE_N /\ agreeing' <= debounce'
        BY <3>1, <3>7, <4>1
      <4>4. state # ST_WARN => agreeing' = debounce'
        <5>1. state # ST_WARN /\ agreeing > 0 => to = Target(state, aerr)
          <6>1. aerr \in Nat
            BY SupervisorAssumption DEF SupInv, SupTypeOK
          <6> QED
            BY <3>1, <3>3, <3>7, <6>1, TargetCases DEF SupInv
        <5> QED
          BY <3>1, <4>1, <5>1 DEF SupInv
      <4>5. Target(state', aerr') # state'
        BY <3>7, <4>1
      <4> QED
        BY <3>1, <3>2, <3>7, <4>1, <4>2, <4>3, <4>4, <4>5 DEF SupInv, SupTypeOK
    <3> QED
      BY <3>1, <3>5, <3>6, <3>7
  <2>2. CASE UNCHANGED supVars
    BY <2>2 DEF supVars, SupInv, SupTypeOK
  <2> QED
    BY <2>1, <2>2
<1> QED
  BY <1>1, <1>2, PTL DEF Spec

(* A supervision state lasts for DEBOUNCE_N samples, and the next one is a *)
(* neighbour: OK and ALARM never follow each other.                        *)
THEOREM StatesDwell == Spec => Dwells
<1>1. SupInv /\ [Sample]_supVars =>
        [state' # state => since + 1 >= DEBOUNCE_N /\ state' - state \in {-1, 1}]_supVars
  <2> SUFFICES ASSUME SupInv, Sample, state' # state
               PROVE  since + 1 >= DEBOUNCE_N /\ state' - state \in {-1, 1}
    OBVIOUS
  <2>1. /\ state \in SupState /\ debounce \in Nat /\ since \in Nat
        /\ debounce <= since /\ DEBOUNCE_N \in Nat
    BY HysteresisAssumption DEF SupInv, SupTypeOK
  <2>2. aerr' \in Nat
    BY SupervisorAssumption DEF Sample
  <2>3. state' = Target(state, aerr') /\ debounce + 1 >= DEBOUNCE_N
    BY SampleCases
  <2> QED
    BY <2>1, <2>2, <2>3, TargetCases
<1> QED
  BY <1>1, SupInvariant, PTL DEF Spec, Dwells

(* OK and ALARM are left only for DEBOUNCE_N samples in a row.             *)
THEOREM OuterDebounced == Spec => OuterStatesDebounced
<1>1. SupInv /\ [Sample]_supVars =>
        [state' # state /\ state # ST_WARN => agreeing + 1 >= DEBOUNCE_N]_supVars
  <2> SUFFICES ASSUME SupInv, Sample, state' # state, state # ST_WARN
               PROVE  agreeing + 1 >= DEBOUNCE_N
    OBVIOUS
  <2>1. debounce + 1 >= DEBOUNCE_N
    BY SampleCases
  <2> QED
    BY <2>1 DEF SupInv
<1> QED
  BY <1>1, SupInvariant, PTL DEF Spec, OuterStatesDebounced

(* How many more samples a fault has to last to be raised, and how many    *)
(* more it has to be over to be cleared, at most, from a state and counter.*)
ToAlarm(st, n) == (2 - st) * DEBOUNCE_N - n
ToOk(st, n)    == st * DEBOUNCE_N - n

(* One sample towards either end.                                          *)
Nearer(st, n, e, st2, n2) ==
  /\ e > ALARM_HI => st2 = ST_ALARM \/ ToAlarm(st2, n2) < ToAlarm(st, n)
  /\ e < WARN_LO => st2 = ST_OK \/ ToOk(st2, n2) < ToOk(st, n)

LEMMA SuperviseNearer ==
  ASSUME NEW st \in SupState, NEW n \in 0 .. DEBOUNCE_N - 1, NEW e \in Nat
  PROVE  LET s == Supervise(st, n, e) IN
         /\ s.state \in SupState /\ s.debounce \in 0 .. DEBOUNCE_N - 1
         /\ st # ST_ALARM => ToAlarm(st, n) \in 1 .. 2 * DEBOUNCE_N
         /\ st # ST_OK => ToOk(st, n) \in 1 .. 2 * DEBOUNCE_N
         /\ Nearer(st, n, e, s.state, s.debounce)
<1> DEFINE s == Supervise(st, n, e)
           to == Target(st, e)
<1>1. /\ st \in {0, 1, 2} /\ DEBOUNCE_N \in Nat
      /\ WARN_HI \in Nat /\ WARN_LO \in Nat /\ ALARM_HI \in Nat /\ ALARM_LO \in Nat
      /\ WARN_LO < WARN_HI /\ ALARM_LO < ALARM_HI /\ WARN_HI < ALARM_LO
  BY HysteresisAssumption DEF SupState, ST_OK, ST_WARN, ST_ALARM
<1>2. \/ to = st /\ s.state = st /\ s.debounce = 0
      \/ to # st /\ n + 1 >= DEBOUNCE_N /\ s.state = to /\ s.debounce = 0
      \/ to # st /\ n + 1 < DEBOUNCE_N /\ s.state = st /\ s.debounce = n + 1
  BY <1>1 DEF Supervise
<1>3. to \in {0, 1, 2}
  BY DEF Target, ST_OK, ST_WARN, ST_ALARM
<1>4. e > ALARM_HI => to = IF st = 0 THEN 1 ELSE 2
  BY <1>1 DEF Target, ST_OK, ST_WARN, ST_ALARM
<1>5. e < WARN_LO => to = IF st = 2 THEN 1 ELSE 0
  BY <1>1 DEF Target, ST_OK, ST_WARN, ST_ALARM
<1> HIDE DEF s, to
<1>6. s.state \in SupState /\ s.debounce \in 0 .. DEBOUNCE_N - 1
  BY <1>1, <1>2, <1>3 DEF SupState, ST_OK, ST_WARN, ST_ALARM
<1>7. /\ st # ST_ALARM => ToAlarm(st, n) \in 1 .. 2 * DEBOUNCE_N
      /\ st # ST_OK => ToOk(st, n) \in 1 .. 2 * DEBOUNCE_N
  BY <1>1 DEF ToAlarm, ToOk, ST_OK, ST_ALARM
<1>8. Nearer(st, n, e, s.state, s.debounce)
  <2>1. CASE st = 0
    BY <1>1, <1>2, <1>4, <1>5, <2>1 DEF Nearer, ToAlarm, ToOk, ST_OK, ST_ALARM
  <2>2. CASE st = 1
    BY <1>1, <1>2, <1>4, <1>5, <2>2 DEF Nearer, ToAlarm, ToOk, ST_OK, ST_ALARM
  <2>3. CASE st = 2
    BY <1>1, <1>2, <1>4, <1>5, <2>3 DEF Nearer, ToAlarm, ToOk, ST_OK, ST_ALARM
  <2> QED
    BY <1>1, <2>1, <2>2, <2>3
<1> QED
  BY <1>6, <1>7, <1>8 DEF s

(* A fault that lasts for 2 * DEBOUNCE_N samples is raised, and one that   *)
(* is over for as many is cleared, whatever came before: each sample above *)
(* ALARM_HI brings the channel nearer to ALARM or finds it there, each one *)
(* below WARN_LO brings it nearer to OK.                                   *)
THEOREM FaultsFollowedInTime ==
  Spec => /\ [](/\ state # ST_ALARM => ToAlarm(state, debounce) \in 1 .. 2 * DEBOUNCE_N
                /\ state # ST_OK => ToOk(state, debounce) \in 1 .. 2 * DEBOUNCE_N)
          /\ [][Nearer(state, debounce, aerr', state', debounce')]_supVars
<1>1. SupInv => /\ state # ST_ALARM => ToAlarm(state, debounce) \in 1 .. 2 * DEBOUNCE_N
                /\ state # ST_OK => ToOk(state, debounce) \in 1 .. 2 * DEBOUNCE_N
  <2> SUFFICES ASSUME SupInv
               PROVE  /\ state # ST_ALARM => ToAlarm(state, debounce) \in 1 .. 2 * DEBOUNCE_N
                      /\ state # ST_OK => ToOk(state, debounce) \in 1 .. 2 * DEBOUNCE_N
    OBVIOUS
  <2>1. state \in SupState /\ debounce \in 0 .. DEBOUNCE_N - 1 /\ 0 \in Nat
    BY DEF SupInv, SupTypeOK
  <2> QED
    BY <2>1, SuperviseNearer
<1>2. SupInv /\ [Sample]_supVars =>
        [Nearer(state, debounce, aerr', state', debounce')]_supVars
  <2> SUFFICES ASSUME SupInv, Sample
               PROVE  Nearer(state, debounce, aerr', state', debounce')
    OBVIOUS
  <2>1. /\ state \in SupState /\ debounce \in 0 .. DEBOUNCE_N - 1 /\ aerr' \in Nat
    BY SupervisorAssumption DEF SupInv, SupTypeOK, Sample
  <2>2. /\ state' = Supervise(state, debounce, aerr').state
        /\ debounce' = Supervise(state, debounce, aerr').debounce
    BY DEF Sample
  <2> QED
    BY <2>1, <2>2, SuperviseNearer
<1> QED
  BY <1>1, <1>2, SupInvariant, PTL DEF Spec

(* A type for the supervision: the counter stays below DEBOUNCE_N, so that *)
(* a change of state always clears it.                                     *)
THEOREM SupervisionTyping == Spec => []SupTypeOK
<1>1. SupInv => SupTypeOK
  BY DEF SupInv
<1> QED
  BY <1>1, SupInvariant, PTL

-----------------------------------------------------------------------------
(* The controller.                                                         *)

LEMMA ClampRange ==
  ASSUME NEW x \in Int, NEW low \in Int, NEW high \in Int, low <= high
  PROVE  Clamp(x, low, high) \in Within(low, high)
BY DEF Clamp, Within

(* A product of numbers whose bounds multiply to less than 2^31.           *)
LEMMA FitsBounds ==
  ASSUME NEW m \in Nat, NEW n \in Nat, m * n <= 2147483647,
         NEW a \in Within(-m, m), NEW b \in Within(-n, n)
  PROVE  Fits(a, b)
<1>1. CASE a = 0
  BY <1>1 DEF Fits
<1>2. CASE a # 0
  <2> DEFINE p == Abs(a)
             q == 2147483647 \div p
  <2>1. p \in 1 .. m
    BY <1>2 DEF Abs, Within
  <2>2. Abs(b) \in 0 .. n
    BY DEF Abs, Within
  <2>3. q \in Nat /\ 2147483647 < p * (q + 1)
    BY <2>1
  <2>4. q >= n
    <3>1. SUFFICES ASSUME q + 1 <= n PROVE FALSE
      BY <2>3
    <3>2. p * (q + 1) <= m * n
      BY <2>1, <2>3, <3>1
    <3> QED
      BY <2>1, <2>3, <3>2
  <2> QED
    BY <2>2, <2>3, <2>4 DEF Fits
<1> QED
  BY <1>1, <1>2

-----------------------------------------------------------------------------
ChannelRecord ==
  [integ : Within(-4092, 4092), prev_err : Within(-4095, 4095),
   out : Within(0, 1023), reading_mv : Int, y : Within(0, 4095), state : SupState,
   debounce : 0 .. DEBOUNCE_N - 1, warn_count : Nat, alarm_count : Nat, sat_count : Nat]

PidInv ==
  /\ ch \in [Channel -> ChannelRecord]
  /\ setpoint \in [Channel -> Within(0, 4095)]
  /\ load \in [Channel -> Int8]
  /\ t \in Nat
  /\ i \in 0 .. NCH

LEMMA ProductRange ==
  ASSUME NEW m \in Nat, NEW n \in Nat, NEW a \in Within(0, m), NEW b \in Within(0, n)
  PROVE  a * b \in Within(0, m * n)
BY DEF Within

(* The signals of one tick, from the sensor to the plant.                  *)
LEMMA Signals ==
  ASSUME PidInv, NEW c \in Channel, NEW n \in Nat
  PROVE  /\ Err(c) \in Within(-4095, 4095)
         /\ Integ(c) \in Within(-4092, 4092)
         /\ Actuated(c) \in Within(0, 1023)
         /\ Distance(c) \in Within(-135168, 135168)
         /\ Plant(c, n) \in Within(0, 4095)
<1>1. ch[c] \in ChannelRecord
  BY DEF PidInv
<1>2. /\ ch[c].integ \in Within(-4092, 4092) /\ ch[c].prev_err \in Within(-4095, 4095)
      /\ ch[c].y \in Within(0, 4095) /\ setpoint[c] \in Within(0, 4095)
      /\ load[c] \in Within(-128, 127)
  BY <1>1 DEF ChannelRecord, Int8, PidInv
<1>3. /\ kp[c] \in Int /\ ki[c] \in Int /\ kd[c] \in Int
      /\ gain[c] \in Within(0, 32767) /\ lag[c] \in Within(0, 256)
  BY PidAssumption DEF Int16, Within
<1>4. Err(c) \in Within(-4095, 4095)
  BY <1>2 DEF Err, Within
<1>5. Integ(c) \in Within(-4092, 4092)
  <2>1. ki[c] * Err(c) \in Int
    BY <1>3, <1>4 DEF Within
  <2>2. ch[c].integ + ((ki[c] * Err(c)) \div 256) \in Int
    BY <1>2, <2>1 DEF Within
  <2>3. INTEG_MAX = 4092
    BY PidAssumption DEF INTEG_MAX
  <2> QED
    BY <2>2, <2>3, ClampRange DEF Integ
<1>6. Actuated(c) \in Within(0, 1023)
  <2>1. kp[c] * Err(c) \in Int /\ kd[c] * (Err(c) - ch[c].prev_err) \in Int
    BY <1>2, <1>3, <1>4 DEF Within
  <2>2. Command(c) \in Int
    BY <1>5, <2>1 DEF Command, Within
  <2>3. PWM_MAX = 1023
    BY PidAssumption
  <2> QED
    BY <2>2, <2>3, ClampRange DEF Actuated
<1>7. Distance(c) \in Within(-135168, 135168)
  <2>1. Actuated(c) * gain[c] \in Within(0, 1023 * 32767)
    BY <1>3, <1>6, ProductRange
  <2>2. (Actuated(c) * gain[c]) \div 256 \in Within(0, 130940)
    BY <2>1 DEF Within
  <2> QED
    BY <1>2, <2>2 DEF Distance, Within
<1>8. Plant(c, n) \in Within(0, 4095)
  <2>1. noise_tab[n % 16] \in Int
    <3>1. n % 16 \in 0 .. 15
      OBVIOUS
    <3> QED
      BY <3>1, PidAssumption DEF Int8, Within
  <2>2. Distance(c) * lag[c] \in Int
    BY <1>3, <1>7 DEF Within
  <2>3. ch[c].y + ((Distance(c) * lag[c]) \div 256) + noise_tab[n % 16] \in Int
    BY <1>2, <2>1, <2>2 DEF Within
  <2>4. ADC_MAX = 4095
    BY PidAssumption
  <2> QED
    BY <2>3, <2>4, ClampRange DEF Plant
<1> QED
  BY <1>4, <1>5, <1>6, <1>7, <1>8

LEMMA TickRange ==
  ASSUME PidInv, NEW c \in Channel, NEW n \in Nat
  PROVE  Ticked(c, n) \in ChannelRecord
<1>1. ch[c] \in ChannelRecord
  BY DEF PidInv
<1>2. /\ Err(c) \in Within(-4095, 4095) /\ Integ(c) \in Within(-4092, 4092)
      /\ Actuated(c) \in Within(0, 1023) /\ Plant(c, n) \in Within(0, 4095)
  BY Signals
<1>3. (ch[c].y * full_scale_mv) \div span[c] \in Int
  <2>1. ch[c].y \in Int /\ full_scale_mv = 3300 /\ span[c] \in Int /\ span[c] > 0
    BY <1>1, PidAssumption DEF ChannelRecord, Within
  <2>2. ch[c].y * full_scale_mv \in Int
    BY <2>1
  <2> QED
    BY <2>1, <2>2
<1>4. AbsErr(c) \in Nat
  BY <1>2 DEF AbsErr, Abs, Within
<1>5. /\ Supervise(ch[c].state, ch[c].debounce, AbsErr(c)).state \in SupState
      /\ Supervise(ch[c].state, ch[c].debounce, AbsErr(c)).debounce \in 0 .. DEBOUNCE_N - 1
  BY <1>1, <1>4, SuperviseNearer DEF ChannelRecord
<1>6. \A k \in Nat : \A e : Counted(k, e) \in Nat
  BY DEF Counted
<1>7. /\ ch[c].sat_count \in Nat /\ ch[c].warn_count \in Nat /\ ch[c].alarm_count \in Nat
  BY <1>1 DEF ChannelRecord
<1> QED
  BY <1>2, <1>3, <1>5, <1>6, <1>7 DEF Ticked, ChannelRecord

LEMMA ScheduleRange ==
  ASSUME PidInv, NEW c \in Channel
  PROVE  sp_profile[Step(c)] \in Within(0, 4095) /\ load_tab[Step(c)] \in Int8
<1>1. t \in Nat /\ c \in Nat
  BY PidAssumption DEF PidInv, Channel
<1>2. Step(c) \in 0 .. 7
  BY <1>1 DEF Step
<1> QED
  BY <1>2, PidAssumption

LEMMA FreshRange ==
  /\ FreshChannel \in ChannelRecord
  /\ sp_profile[0] \in Within(0, 4095)
  /\ 0 \in Int8
<1>1. FreshChannel \in ChannelRecord
  BY HysteresisAssumption DEF FreshChannel, ChannelRecord, SupState, ST_OK, Within
<1> QED
  BY <1>1, PidAssumption DEF Int8, Within

LEMMA PidInvariant == PidSpec => []PidInv
<1>1. PidInit => PidInv
  BY FreshRange, PidAssumption DEF PidInit, PidInv
<1>2. PidInv /\ [PidNext]_pidVars => PidInv'
  <2> SUFFICES ASSUME PidInv, [PidNext]_pidVars PROVE PidInv'
    OBVIOUS
  <2>1. CASE NewSetpoints
    <3>1. setpoint' \in [Channel -> Within(0, 4095)] /\ load' \in [Channel -> Int8]
      <4>1. CASE t % 256 = 0
        BY <2>1, <4>1, ScheduleRange DEF NewSetpoints
      <4>2. CASE t % 256 # 0
        BY <2>1, <4>2 DEF NewSetpoints, PidInv
      <4> QED
        BY <4>1, <4>2
    <3> QED
      BY <2>1, <3>1, PidAssumption DEF NewSetpoints, PidInv
  <2>2. CASE ChannelTick
    <3>1. i \in Channel /\ t + i \in Nat /\ i + 1 \in 0 .. NCH
      BY <2>2, PidAssumption DEF ChannelTick, PidInv, Channel
    <3>2. Ticked(i, t + i) \in ChannelRecord
      BY <3>1, TickRange
    <3>3. ch' \in [Channel -> ChannelRecord]
      BY <2>2, <3>1, <3>2 DEF ChannelTick, channel_tick, PidInv
    <3> QED
      BY <2>2, <3>1, <3>3 DEF ChannelTick, channel_tick, PidInv
  <2>3. CASE NextTick
    BY <2>3 DEF NextTick, PidInv
  <2>4. CASE TicksDone
    BY <2>4 DEF TicksDone, PidInv
  <2>5. CASE SumWord
    BY <2>5 DEF SumWord, PidInv
  <2>6. CASE ReturnChecksum
    BY <2>6 DEF ReturnChecksum, PidInv
  <2>7. CASE bench_init
    BY <2>7, FreshRange, PidAssumption DEF bench_init, PidInv
  <2>8. CASE UNCHANGED pidVars
    BY <2>8 DEF pidVars, PidInv
  <2> QED
    BY <2>1, <2>2, <2>3, <2>4, <2>5, <2>6, <2>7, <2>8 DEF PidNext
<1> QED
  BY <1>1, <1>2, PTL DEF PidSpec

(* The clamps of pidctl.c keep measurement, command and integrator inside  *)
(* the ranges of sensor and actuator, whatever the gains.                  *)
THEOREM SignalsInRange == PidSpec => []SignalsOK
<1>1. PidInv => SignalsOK
  <2> SUFFICES ASSUME PidInv, NEW c \in Channel
               PROVE  /\ ch[c].y \in Within(0, 4095)
                      /\ ch[c].out \in Within(0, 1023)
                      /\ ch[c].integ \in Within(-4092, 4092)
                      /\ ch[c].prev_err \in Within(-4095, 4095)
                      /\ setpoint[c] \in Within(0, 4095)
                      /\ load[c] \in Int8
    BY PidAssumption DEF SignalsOK, INTEG_MAX
  <2> QED
    BY DEF PidInv, ChannelRecord
<1> QED
  BY <1>1, PidInvariant, PTL

(* pidctl.c:12-17: no product of the loop leaves 32 bits.                  *)
THEOREM ProductsInRange == PidSpec => []ProductsFit
<1>1. PidInv => ProductsFit
  <2> SUFFICES ASSUME PidInv, NEW c \in Channel
               PROVE  /\ Fits(full_scale_mv, ch[c].y)
                      /\ Fits(kp[c], Err(c))
                      /\ Fits(ki[c], Err(c))
                      /\ Fits(kd[c], Err(c) - ch[c].prev_err)
                      /\ Fits(gain[c], Actuated(c))
                      /\ Fits(lag[c], Distance(c))
    BY DEF ProductsFit
  <2>1. /\ ch[c].y \in Within(-4095, 4095) /\ ch[c].prev_err \in Within(-4095, 4095)
    BY DEF PidInv, ChannelRecord, Within
  <2>2. /\ Err(c) \in Within(-4095, 4095) /\ Actuated(c) \in Within(0, 1023)
        /\ Distance(c) \in Within(-135168, 135168)
    BY Signals
  <2>3. /\ kp[c] \in Within(-32768, 32768) /\ ki[c] \in Within(-32768, 32768) /\ kd[c] \in Within(-32768, 32768)
        /\ gain[c] \in Within(-32768, 32768) /\ lag[c] \in Within(-256, 256)
        /\ full_scale_mv \in Within(-3300, 3300)
    BY PidAssumption DEF Int16, Within
  <2>4. Fits(full_scale_mv, ch[c].y)
    <3>1. 3300 \in Nat /\ 4095 \in Nat /\ 3300 * 4095 <= 2147483647
      BY SMT
    <3>2. full_scale_mv \in Within(-3300, 3300) /\ ch[c].y \in Within(-4095, 4095)
      BY <2>1, <2>3
    <3> QED
      BY <3>1, <3>2, FitsBounds
  <2>5. Fits(kp[c], Err(c)) /\ Fits(ki[c], Err(c))
    <3>1. 32768 \in Nat /\ 4095 \in Nat /\ 32768 * 4095 <= 2147483647
      BY SMT
    <3>2. /\ kp[c] \in Within(-32768, 32768) /\ ki[c] \in Within(-32768, 32768)
          /\ Err(c) \in Within(-4095, 4095)
      BY <2>2, <2>3
    <3>3. Fits(kp[c], Err(c))
      BY <3>1, <3>2, FitsBounds
    <3>4. Fits(ki[c], Err(c))
      BY <3>1, <3>2, FitsBounds
    <3> QED
      BY <3>3, <3>4
  <2>6. Fits(kd[c], Err(c) - ch[c].prev_err)
    <3>1. Err(c) - ch[c].prev_err \in Within(-8190, 8190)
      BY <2>1, <2>2 DEF Within
    <3>2. 32768 \in Nat /\ 8190 \in Nat /\ 32768 * 8190 <= 2147483647
      BY SMT
    <3>3. kd[c] \in Within(-32768, 32768)
      BY <2>3
    <3> QED
      BY <3>1, <3>2, <3>3, FitsBounds
  <2>7. Fits(gain[c], Actuated(c))
    <3>1. Actuated(c) \in Within(-4095, 4095)
      BY <2>2 DEF Within
    <3>2. 32768 \in Nat /\ 4095 \in Nat /\ 32768 * 4095 <= 2147483647
      BY SMT
    <3>3. gain[c] \in Within(-32768, 32768)
      BY <2>3
    <3> QED
      BY <3>1, <3>2, <3>3, FitsBounds
  <2>8. Fits(lag[c], Distance(c))
    <3>1. 256 \in Nat /\ 135168 \in Nat /\ 256 * 135168 <= 2147483647
      BY SMT
    <3>2. lag[c] \in Within(-256, 256) /\ Distance(c) \in Within(-135168, 135168)
      BY <2>2, <2>3
    <3> QED
      BY <3>1, <3>2, FitsBounds
  <2> QED
    BY <2>4, <2>5, <2>6, <2>7, <2>8
<1> QED
  BY <1>1, PidInvariant, PTL

(* Both, for every tuning, profile and disturbance the types admit.        *)
THEOREM ArithmeticSafe == PidSpec => []ArithmeticInRange
BY SignalsInRange, ProductsInRange, PTL DEF ArithmeticInRange

-----------------------------------------------------------------------------
(* The supervision inside the control loop.                                *)

(* A channel under control is supervised as in Supervisor: with the error  *)
(* its own plant and setpoint produce, a fault is raised and cleared as    *)
(* fast as for any other source of samples.                                *)
THEOREM ChannelsFollowedInTime ==
  PidSpec => [][pc = "channels" /\ i < NCH =>
                  Nearer(ch[i].state, ch[i].debounce, AbsErr(i),
                         ch'[i].state, ch'[i].debounce)]_pidVars
<1>1. PidInv /\ [PidNext]_pidVars =>
        [pc = "channels" /\ i < NCH =>
           Nearer(ch[i].state, ch[i].debounce, AbsErr(i),
                  ch'[i].state, ch'[i].debounce)]_pidVars
  <2> SUFFICES ASSUME PidInv, PidNext, pc = "channels", i < NCH
               PROVE  Nearer(ch[i].state, ch[i].debounce, AbsErr(i),
                             ch'[i].state, ch'[i].debounce)
    OBVIOUS
  <2>1. ChannelTick
    BY PidAssumption DEF PidInv, PidNext, NewSetpoints, NextTick, TicksDone, SumWord,
       ReturnChecksum, bench_init
  <2>2. i \in Channel /\ ch[i] \in ChannelRecord
    BY PidAssumption DEF PidInv, Channel
  <2>3. ch'[i] = Ticked(i, t + i)
    BY <2>1, <2>2 DEF ChannelTick, channel_tick, PidInv
  <2>4. AbsErr(i) \in Nat
    <3>1. Err(i) \in Within(-4095, 4095)
      BY <2>2, Signals DEF PidInv
    <3> QED
      BY <3>1 DEF AbsErr, Abs, Within
  <2>5. /\ ch[i].state \in SupState /\ ch[i].debounce \in 0 .. DEBOUNCE_N - 1
    BY <2>2 DEF ChannelRecord
  <2>6. /\ ch'[i].state = Supervise(ch[i].state, ch[i].debounce, AbsErr(i)).state
        /\ ch'[i].debounce = Supervise(ch[i].state, ch[i].debounce, AbsErr(i)).debounce
    BY <2>3 DEF Ticked
  <2> QED
    BY <2>4, <2>5, <2>6, SuperviseNearer
<1> QED
  BY <1>1, PidInvariant, PTL DEF PidSpec

(* The samples channel c has had in this run, and the changes of its state:*)
(* each rise is counted, and there are as many falls less the levels it    *)
(* still stands above OK.                                                  *)
Samples(c) == t + (IF pc = "channels" /\ c < i THEN 1 ELSE 0)
Changes(s) == 2 * (s.warn_count + s.alarm_count) - s.state
Paced(s, n) == DEBOUNCE_N * Changes(s) + s.debounce <= n

ChangesPaced == \A c \in Channel : Paced(ch[c], Samples(c))

LEMMA TickPaced ==
  ASSUME PidInv, NEW c \in Channel, NEW n \in Nat, NEW k \in Nat, Paced(ch[c], k)
  PROVE  Paced(Ticked(c, n), k + 1)
<1> DEFINE s == Supervise(ch[c].state, ch[c].debounce, AbsErr(c))
           to == Target(ch[c].state, AbsErr(c))
           r == Ticked(c, n)
<1>1. ch[c] \in ChannelRecord
  BY DEF PidInv
<1>2. /\ ch[c].state \in {0, 1, 2} /\ ch[c].debounce \in 0 .. DEBOUNCE_N - 1
      /\ ch[c].warn_count \in Nat /\ ch[c].alarm_count \in Nat /\ DEBOUNCE_N \in Nat
  BY <1>1, HysteresisAssumption DEF ChannelRecord, SupState, ST_OK, ST_WARN, ST_ALARM
<1>3. /\ r.state = s.state /\ r.debounce = s.debounce
      /\ r.warn_count = Counted(ch[c].warn_count, ch[c].state = ST_OK /\ s.state = ST_WARN)
      /\ r.alarm_count = Counted(ch[c].alarm_count, ch[c].state = ST_WARN /\ s.state = ST_ALARM)
  BY DEF Ticked
<1>4. \/ s.state = ch[c].state /\ (s.debounce = 0 \/ s.debounce = ch[c].debounce + 1)
      \/ /\ s.state = to /\ to # ch[c].state /\ s.debounce = 0
         /\ ch[c].debounce + 1 >= DEBOUNCE_N
  BY <1>2 DEF Supervise
<1>5. to # ch[c].state => \/ ch[c].state = 0 /\ to = 1
                          \/ ch[c].state = 1 /\ to \in {0, 2}
                          \/ ch[c].state = 2 /\ to = 1
  BY <1>2 DEF Target, ST_OK, ST_WARN, ST_ALARM
<1> HIDE DEF s, to, r
<1>6. Changes(ch[c]) \in Int
  BY <1>2 DEF Changes
<1>7. CASE s.state = ch[c].state
  <2>1. Changes(r) = Changes(ch[c])
    BY <1>2, <1>3, <1>7 DEF Changes, Counted, ST_OK, ST_WARN, ST_ALARM
  <2> QED
    BY <1>2, <1>3, <1>4, <1>6, <1>7, <2>1 DEF Paced, r
<1>8. CASE s.state # ch[c].state
  <2>1. Changes(r) = Changes(ch[c]) + 1
    BY <1>2, <1>3, <1>4, <1>5, <1>8 DEF Changes, Counted, ST_OK, ST_WARN, ST_ALARM
  <2>2. DEBOUNCE_N * (Changes(ch[c]) + 1) = DEBOUNCE_N * Changes(ch[c]) + DEBOUNCE_N
    BY <1>2, <1>6
  <2>3. DEBOUNCE_N * Changes(ch[c]) \in Int
    BY <1>2, <1>6
  <2>4. DEBOUNCE_N * Changes(ch[c]) + DEBOUNCE_N <= k + 1
    BY <1>2, <1>4, <1>8, <2>3 DEF Paced
  <2> QED
    BY <1>2, <1>3, <1>4, <1>8, <2>1, <2>2, <2>3, <2>4 DEF Paced, r
<1> QED
  BY <1>7, <1>8

(* Warnings and alarms cannot come faster than the debouncing lets them: a *)
(* channel changes its state once in DEBOUNCE_N ticks at most, and the way *)
(* down does not count.  So warn_count and alarm_count together are one    *)
(* more than TICKS / (2 * DEBOUNCE_N) at most, whatever the errors do.     *)
THEOREM WarningsPaced == PidSpec => []ChangesPaced
<1> DEFINE Inv == PidInv /\ ChangesPaced
<1>1. PidInit => ChangesPaced
  BY HysteresisAssumption
  DEF PidInit, ChangesPaced, Paced, Changes, Samples, FreshChannel, ST_OK
<1>2. PidInv /\ PidInv' /\ ChangesPaced /\ [PidNext]_pidVars => ChangesPaced'
  <2> SUFFICES ASSUME PidInv, PidInv', ChangesPaced, [PidNext]_pidVars, NEW c \in Channel
               PROVE  Paced(ch'[c], Samples(c)')
    BY DEF ChangesPaced
  <2>1. Paced(ch[c], Samples(c)) /\ Samples(c) \in Nat /\ c \in 0 .. NCH - 1
    BY DEF ChangesPaced, Samples, PidInv, Channel
  <2>2. CASE ChannelTick
    <3>1. i \in Channel /\ t \in Nat /\ t + i \in Nat
      BY <2>2, PidAssumption DEF ChannelTick, PidInv, Channel
    <3>2. CASE c = i
      <4>1. ch'[c] = Ticked(c, t + i)
        BY <2>2, <3>1, <3>2 DEF ChannelTick, channel_tick, PidInv
      <4>2. Samples(c)' = Samples(c) + 1
        BY <2>2, <3>1, <3>2 DEF ChannelTick, Samples, Channel
      <4> QED
        BY <2>1, <3>1, <4>1, <4>2, TickPaced
    <3>3. CASE c # i
      <4>1. ch'[c] = ch[c]
        BY <2>2, <3>1, <3>3 DEF ChannelTick, channel_tick, PidInv
      <4>2. Samples(c)' = Samples(c)
        BY <2>1, <2>2, <3>1, <3>3 DEF ChannelTick, Samples, Channel
      <4> QED
        BY <2>1, <4>1, <4>2
    <3> QED
      BY <3>2, <3>3
  <2>3. CASE NextTick
    <3>1. ch' = ch /\ Samples(c)' = Samples(c)
      BY <2>1, <2>3, PidAssumption DEF NextTick, Samples, PidInv
    <3> QED
      BY <2>1, <3>1
  <2>4. CASE NewSetpoints
    <3>1. ch' = ch /\ Samples(c)' = Samples(c)
      BY <2>1, <2>4 DEF NewSetpoints, Samples
    <3> QED
      BY <2>1, <3>1
  <2>5. CASE TicksDone \/ SumWord \/ ReturnChecksum \/ UNCHANGED pidVars
    <3>1. ch' = ch /\ Samples(c)' = Samples(c)
      BY <2>5 DEF TicksDone, SumWord, ReturnChecksum, pidVars, Samples
    <3> QED
      BY <2>1, <3>1
  <2>6. CASE bench_init
    <3>1. ch'[c] = FreshChannel /\ Samples(c)' = 0
      BY <2>6 DEF bench_init, Samples
    <3> QED
      BY <3>1, HysteresisAssumption DEF Paced, Changes, FreshChannel, ST_OK
  <2> QED
    BY <2>2, <2>3, <2>4, <2>5, <2>6 DEF PidNext
<1> QED
  BY <1>1, <1>2, PidInvariant, PTL DEF PidSpec

-----------------------------------------------------------------------------
(* bench_run ends.  The steps left are those of this run, and those of the *)
(* second one when this is the first.                                      *)
TickSteps == NCH + 2
SumSteps  == 8 * NCH + 1
RunSteps  == TICKS * TickSteps + 1 + SumSteps

StepsInRun ==
  CASE pc = "tick"     -> (TICKS - t) * TickSteps + 1 + SumSteps
    [] pc = "channels" -> (TICKS - t) * TickSteps - 1 - i + 1 + SumSteps
    [] pc = "sum"      -> 8 * NCH - words + 1
    [] OTHER           -> 0

PidStepsLeft ==
  IF got = <<>> THEN StepsInRun + 1 + RunSteps
  ELSE IF pc = "init" THEN 1 + RunSteps
  ELSE StepsInRun

PlaceInv ==
  /\ pc \in {"tick", "channels", "sum", "init", "exit"}
  /\ t \in 0 .. TICKS /\ i \in 0 .. NCH /\ words \in 0 .. 8 * NCH
  /\ pc = "channels" => t < TICKS
  /\ pc \in {"tick", "channels"} => words = 0
  /\ pc = "exit" \/ got = <<>> \/ got = <<got[1]>>
  /\ pc \in {"init", "exit"} => got # <<>>

LEMMA TicksLeft ==
  ASSUME NEW k \in Nat
  PROVE  /\ k * TickSteps \in Nat /\ TickSteps \in Nat /\ TickSteps = NCH + 2
         /\ k > 0 => k * TickSteps = (k - 1) * TickSteps + TickSteps
         /\ k > 0 => (k - 1) * TickSteps \in Nat
<1>1. TickSteps \in Nat /\ TickSteps = NCH + 2
  BY PidAssumption DEF TickSteps
<1> HIDE DEF TickSteps
<1>2. k * TickSteps \in Nat /\ (k > 0 => (k - 1) * TickSteps \in Nat)
  BY <1>1
<1>3. k > 0 => k * TickSteps = (k - 1) * TickSteps + TickSteps
  BY <1>1
<1> QED
  BY <1>1, <1>2, <1>3

LEMMA PlaceNumbers ==
  ASSUME PlaceInv
  PROVE  /\ StepsInRun \in Nat /\ RunSteps \in Nat /\ PidStepsLeft \in Nat
         /\ PidStepsLeft <= 2 * RunSteps + 1
         /\ pc # "exit" => PidGoesOn
<1>1. /\ NCH \in Nat /\ NCH > 0 /\ TICKS \in Nat /\ SumSteps = 8 * NCH + 1
      /\ t \in Nat /\ t <= TICKS /\ i \in Nat /\ i <= NCH /\ words \in Nat /\ words <= 8 * NCH
  BY PidAssumption DEF PlaceInv, SumSteps
<1>2. /\ (TICKS - t) * TickSteps \in Nat /\ TickSteps = NCH + 2 /\ TICKS * TickSteps \in Nat
      /\ (TICKS - t) * TickSteps <= TICKS * TickSteps
  <2>1. TICKS - t \in Nat /\ TICKS \in Nat
    BY <1>1
  <2>2. TickSteps \in Nat /\ TickSteps = NCH + 2
    BY <2>1, TicksLeft
  <2>3. (TICKS - t) * TickSteps + t * TickSteps = TICKS * TickSteps /\ t * TickSteps \in Nat
    <3> HIDE DEF TickSteps
    <3> QED
      BY <1>1, <2>2
  <2> QED
    BY <2>1, <2>2, <2>3, TicksLeft
<1>3. pc = "channels" => (TICKS - t) * TickSteps >= NCH + 2
  <2> SUFFICES ASSUME pc = "channels" PROVE (TICKS - t) * TickSteps >= NCH + 2
    OBVIOUS
  <2>1. TICKS - t \in Nat /\ TICKS - t > 0
    BY <1>1 DEF PlaceInv
  <2> QED
    BY <1>1, <1>2, <2>1, TicksLeft
<1> HIDE DEF TickSteps, SumSteps
<1>4. StepsInRun \in Nat /\ RunSteps \in Nat /\ StepsInRun <= RunSteps
  BY <1>1, <1>2, <1>3 DEF StepsInRun, RunSteps
<1>5. PidStepsLeft \in Nat /\ PidStepsLeft <= 2 * RunSteps + 1
  BY <1>4 DEF PidStepsLeft
<1>6. pc # "exit" => PidGoesOn
  BY <1>1 DEF PlaceInv, PidGoesOn
<1> QED
  BY <1>4, <1>5, <1>6

LEMMA PlaceStep ==
  ASSUME PlaceInv, PidNext
  PROVE  PlaceInv' /\ PidStepsLeft' < PidStepsLeft
<1>1. /\ NCH \in Nat /\ NCH > 0 /\ TICKS \in Nat /\ SumSteps = 8 * NCH + 1
      /\ t \in Nat /\ t <= TICKS /\ i \in Nat /\ i <= NCH /\ words \in Nat /\ words <= 8 * NCH
  BY PidAssumption DEF PlaceInv, SumSteps
<1>2. TICKS - t \in Nat /\ (TICKS - t) * TickSteps \in Nat /\ TickSteps = NCH + 2
      /\ RunSteps \in Nat
  <2>1. TICKS - t \in Nat
    BY <1>1
  <2>2. (TICKS - t) * TickSteps \in Nat /\ TickSteps = NCH + 2
    BY <2>1, TicksLeft
  <2> QED
    BY <2>1, <2>2, PlaceNumbers
<1>3. CASE NewSetpoints
  <2>1. PlaceInv'
    BY <1>1, <1>3 DEF NewSetpoints, PlaceInv
  <2>2. StepsInRun' = StepsInRun - 1 /\ StepsInRun \in Nat
    <3>1. StepsInRun' = (TICKS - t) * TickSteps - 1 - 0 + 1 + SumSteps
      BY <1>3 DEF NewSetpoints, StepsInRun
    <3>2. StepsInRun = (TICKS - t) * TickSteps + 1 + SumSteps
      BY <1>3 DEF NewSetpoints, StepsInRun
    <3> QED
      BY <1>1, <1>2, <3>1, <3>2
  <2> QED
    BY <1>2, <1>3, <2>1, <2>2 DEF NewSetpoints, PidStepsLeft
<1>4. CASE ChannelTick
  <2>1. PlaceInv'
    BY <1>1, <1>4 DEF ChannelTick, PlaceInv
  <2>2. StepsInRun' = StepsInRun - 1 /\ StepsInRun \in Nat
    <3>1. StepsInRun' = (TICKS - t) * TickSteps - 1 - (i + 1) + 1 + SumSteps
      BY <1>4 DEF ChannelTick, StepsInRun
    <3>2. StepsInRun = (TICKS - t) * TickSteps - 1 - i + 1 + SumSteps
      BY <1>4 DEF ChannelTick, StepsInRun
    <3> QED
      BY <1>1, <1>2, <3>1, <3>2, PlaceNumbers
  <2> QED
    BY <1>2, <1>4, <2>1, <2>2 DEF ChannelTick, PidStepsLeft
<1>5. CASE NextTick
  <2>1. t < TICKS
    BY <1>5 DEF NextTick, PlaceInv
  <2>2. PlaceInv'
    BY <1>1, <1>5, <2>1 DEF NextTick, PlaceInv
  <2>3. StepsInRun' = StepsInRun - 1 /\ StepsInRun \in Nat
    <3>1. StepsInRun' = (TICKS - (t + 1)) * TickSteps + 1 + SumSteps
      BY <1>5 DEF NextTick, StepsInRun
    <3>2. StepsInRun = (TICKS - t) * TickSteps - 1 - NCH + 1 + SumSteps
      BY <1>5 DEF NextTick, StepsInRun
    <3>3. TICKS - (t + 1) = (TICKS - t) - 1 /\ TICKS - t > 0
      BY <1>1, <2>1
    <3>4. /\ (TICKS - t) * TickSteps = ((TICKS - t) - 1) * TickSteps + TickSteps
          /\ ((TICKS - t) - 1) * TickSteps \in Nat
      BY <1>2, <3>3, TicksLeft
    <3> QED
      BY <1>1, <1>2, <3>1, <3>2, <3>3, <3>4
  <2> QED
    BY <1>2, <1>5, <2>2, <2>3 DEF NextTick, PidStepsLeft
<1>6. CASE TicksDone
  <2>1. PlaceInv'
    BY <1>6 DEF TicksDone, PlaceInv
  <2>2. StepsInRun' = StepsInRun - 1 /\ StepsInRun \in Nat
    <3>1. StepsInRun' = 8 * NCH - words + 1 /\ words = 0
      BY <1>6 DEF TicksDone, StepsInRun, PlaceInv
    <3>2. StepsInRun = (TICKS - t) * TickSteps + 1 + SumSteps /\ t = TICKS
      BY <1>6 DEF TicksDone, StepsInRun
    <3>3. (TICKS - t) * TickSteps = 0
      BY <1>1, <1>2, <3>2
    <3> QED
      BY <1>1, <3>1, <3>2, <3>3
  <2> QED
    BY <1>2, <1>6, <2>1, <2>2 DEF TicksDone, PidStepsLeft
<1>7. CASE SumWord
  <2>1. PlaceInv'
    BY <1>1, <1>7 DEF SumWord, PlaceInv
  <2>2. StepsInRun' = StepsInRun - 1 /\ StepsInRun \in Nat
    BY <1>1, <1>7 DEF SumWord, StepsInRun
  <2> QED
    BY <1>2, <1>7, <2>1, <2>2 DEF SumWord, PidStepsLeft
<1>8. CASE ReturnChecksum
  <2>1. StepsInRun = 1 /\ got' = Append(got, chk)
    BY <1>1, <1>8 DEF ReturnChecksum, StepsInRun
  <2>2. got' # <<>>
    <3>1. CASE got = <<>>
      BY <2>1, <3>1
    <3>2. CASE got = <<got[1]>>
      <4>1. <<got[1]>> \in Seq({got[1], chk})
        OBVIOUS
      <4>2. Append(<<got[1]>>, chk) # <<>>
        BY <4>1
      <4> QED
        BY <2>1, <3>2, <4>2
    <3> QED
      BY <1>8, <3>1, <3>2 DEF PlaceInv, ReturnChecksum
  <2>5. pc' = "exit" \/ got' = <<got'[1]>>
    <3>1. Append(<<>>, chk) = <<chk>> /\ <<chk>>[1] = chk
      OBVIOUS
    <3> QED
      BY <1>8, <2>1, <3>1 DEF ReturnChecksum
  <2>3. PlaceInv'
    BY <1>8, <2>2, <2>5 DEF ReturnChecksum, PlaceInv
  <2>4. StepsInRun' = 0
    BY <1>8 DEF ReturnChecksum, StepsInRun
  <2>6. pc = "sum" /\ pc' = IF got = <<>> THEN "init" ELSE "exit"
    BY <1>8 DEF ReturnChecksum
  <2>7. PidStepsLeft' = IF got = <<>> THEN 1 + RunSteps ELSE 0
    BY <2>2, <2>4, <2>6 DEF PidStepsLeft, RunSteps, TickSteps, SumSteps
  <2>8. PidStepsLeft = IF got = <<>> THEN 1 + 1 + RunSteps ELSE 1
    BY <2>1, <2>6 DEF PidStepsLeft
  <2> QED
    BY <1>2, <2>3, <2>7, <2>8
<1>9. CASE bench_init
  <2>1. PlaceInv'
    BY <1>1, <1>9 DEF bench_init, PlaceInv
  <2>2. StepsInRun' = RunSteps /\ got' # <<>> /\ got # <<>> /\ pc' = "tick" /\ pc = "init"
    BY <1>1, <1>9 DEF bench_init, StepsInRun, RunSteps, PlaceInv
  <2> QED
    BY <1>2, <2>1, <2>2 DEF PidStepsLeft
<1> QED
  BY <1>3, <1>4, <1>5, <1>6, <1>7, <1>8, <1>9 DEF PidNext

(* The control loop ends: every step of the program brings it nearer to    *)
(* its exit, it always has a next step until then, and the two runs take   *)
(* 2 * (TICKS * (NCH + 2) + 8 * NCH + 2) + 1 steps at most.                *)
THEOREM PidEnds ==
  PidSpec => /\ [](PidStepsLeft \in 0 .. 2 * RunSteps + 1)
             /\ [](pc # "exit" => PidGoesOn)
             /\ [][PidStepsLeft' < PidStepsLeft]_pidVars
<1>1. PidInit => PlaceInv
  BY PidAssumption DEF PidInit, PlaceInv
<1>2. PlaceInv /\ [PidNext]_pidVars => PlaceInv'
  BY PlaceStep DEF PlaceInv, pidVars
<1>3. PlaceInv /\ [PidNext]_pidVars => [PidStepsLeft' < PidStepsLeft]_pidVars
  BY PlaceStep
<1>4. PlaceInv => PidStepsLeft \in 0 .. 2 * RunSteps + 1 /\ (pc # "exit" => PidGoesOn)
  BY PlaceNumbers
<1> QED
  BY <1>1, <1>2, <1>3, <1>4, PTL DEF PidSpec

-----------------------------------------------------------------------------
(* Two runs, in two memories.                                              *)

LEMMA SameOperators ==
  /\ Second!Channel = Channel /\ Second!INTEG_MAX = INTEG_MAX
  /\ Second!FreshChannel = FreshChannel
  /\ \A x, low, high : Second!Clamp(x, low, high) = Clamp(x, low, high)
  /\ \A x : Second!Abs(x) = Abs(x)
  /\ \A n, e : Second!Counted(n, e) = Counted(n, e)
  /\ \A n : Second!Word(n) = Word(n)
  /\ \A c, w : Second!Mix(c, w) = Mix(c, w)
  /\ \A st, n, e : Second!Supervise(st, n, e) = Supervise(st, n, e)
<1>1. \A st, e : Second!Target(st, e) = Target(st, e)
  BY DEF Target, Second!Target, ST_OK, ST_WARN, ST_ALARM, Second!ST_OK, Second!ST_WARN,
     Second!ST_ALARM
<1>2. \A st, n, e : Second!Supervise(st, n, e) = Supervise(st, n, e)
  BY <1>1 DEF Supervise, Second!Supervise
<1>3. \A n, e : Second!Counted(n, e) = Counted(n, e)
  BY DEF Counted, Second!Counted
<1>4. Second!FreshChannel = FreshChannel
  BY DEF FreshChannel, Second!FreshChannel, ST_OK, Second!ST_OK
<1> QED
  BY <1>2, <1>3, <1>4 DEF Channel, Second!Channel, INTEG_MAX, Second!INTEG_MAX, Clamp,
     Second!Clamp, Abs, Second!Abs, Word, Second!Word, Mix, Second!Mix

LEMMA SameTicks ==
  ASSUME InStep, NEW c, NEW n
  PROVE  Second!Ticked(c, n) = Ticked(c, n)
<1>1. Second!Err(c) = Err(c)
  BY DEF InStep, Err, Second!Err
<1>2. Second!Integ(c) = Integ(c)
  BY <1>1, SameOperators DEF InStep, Integ, Second!Integ
<1>3. Second!Command(c) = Command(c)
  BY <1>1, <1>2 DEF InStep, Command, Second!Command
<1>4. Second!Actuated(c) = Actuated(c)
  BY <1>3, SameOperators DEF Actuated, Second!Actuated
<1>5. Second!Plant(c, n) = Plant(c, n)
  <2>1. Second!Distance(c) = Distance(c)
    BY <1>4 DEF InStep, Distance, Second!Distance
  <2> QED
    BY <2>1, SameOperators DEF InStep, Plant, Second!Plant
<1>6. Second!AbsErr(c) = AbsErr(c)
  BY <1>1, SameOperators DEF AbsErr, Second!AbsErr
<1> QED
  BY <1>1, <1>2, <1>3, <1>4, <1>5, <1>6, SameOperators
  DEF InStep, Ticked, Second!Ticked, ST_OK, ST_WARN, ST_ALARM, Second!ST_OK,
      Second!ST_WARN, Second!ST_ALARM

LEMMA SameWords ==
  ASSUME InStep
  PROVE  Second!StateWord(words) = StateWord(words)
BY SameOperators DEF InStep, StateWord, Second!StateWord

(* bench_run is sequential: where it is says which statement comes next.   *)
LEMMA TwoSteps ==
  ASSUME PlaceInv, InStep, PidNext, Second!PidNext
  PROVE  \/ NewSetpoints /\ Second!NewSetpoints
         \/ ChannelTick /\ Second!ChannelTick
         \/ NextTick /\ Second!NextTick
         \/ TicksDone /\ Second!TicksDone
         \/ SumWord /\ Second!SumWord
         \/ ReturnChecksum /\ Second!ReturnChecksum
<1>1. /\ NCH \in Nat /\ TICKS \in Nat /\ t \in Nat /\ i \in Nat /\ words \in Nat
      /\ pc_2 = pc /\ t_2 = t /\ i_2 = i /\ words_2 = words
      /\ pc \in {"tick", "channels", "sum"}
  BY PidAssumption DEF PlaceInv, InStep
<1>2. CASE pc = "tick"
  BY <1>1, <1>2 DEF PidNext, NewSetpoints, ChannelTick, NextTick, TicksDone, SumWord,
     ReturnChecksum, bench_init, Second!PidNext, Second!NewSetpoints, Second!ChannelTick,
     Second!NextTick, Second!TicksDone, Second!SumWord, Second!ReturnChecksum,
     Second!bench_init
<1>3. CASE pc = "channels"
  BY <1>1, <1>3 DEF PidNext, NewSetpoints, ChannelTick, NextTick, TicksDone, SumWord,
     ReturnChecksum, bench_init, Second!PidNext, Second!NewSetpoints, Second!ChannelTick,
     Second!NextTick, Second!TicksDone, Second!SumWord, Second!ReturnChecksum,
     Second!bench_init
<1>4. CASE pc = "sum"
  BY <1>1, <1>4 DEF PidNext, NewSetpoints, ChannelTick, NextTick, TicksDone, SumWord,
     ReturnChecksum, bench_init, Second!PidNext, Second!NewSetpoints, Second!ChannelTick,
     Second!NextTick, Second!TicksDone, Second!SumWord, Second!ReturnChecksum,
     Second!bench_init
<1> QED
  BY <1>1, <1>2, <1>3, <1>4

LEMMA InStepKept ==
  ASSUME PlaceInv, InStep, PidNext, Second!PidNext
  PROVE  TwiceInv'
<1>1. CASE NewSetpoints /\ Second!NewSetpoints
  <2>1. \A c : Second!Step(c) = Step(c)
    BY DEF InStep, Step, Second!Step
  <2>2. setpoint_2' = setpoint' /\ load_2' = load'
    BY <1>1, <2>1, SameOperators DEF InStep, NewSetpoints, Second!NewSetpoints
  <2> QED
    BY <1>1, <2>2 DEF InStep, NewSetpoints, Second!NewSetpoints, TwiceInv
<1>2. CASE ChannelTick /\ Second!ChannelTick
  <2>1. ch_2' = ch'
    BY <1>2, SameTicks DEF InStep, ChannelTick, Second!ChannelTick, channel_tick,
       Second!channel_tick
  <2> QED
    BY <1>2, <2>1 DEF InStep, ChannelTick, Second!ChannelTick, channel_tick,
       Second!channel_tick, TwiceInv
<1>3. CASE NextTick /\ Second!NextTick
  BY <1>3 DEF InStep, NextTick, Second!NextTick, TwiceInv
<1>4. CASE TicksDone /\ Second!TicksDone
  BY <1>4 DEF InStep, TicksDone, Second!TicksDone, TwiceInv
<1>5. CASE SumWord /\ Second!SumWord
  <2>1. chk_2' = chk'
    BY <1>5, SameWords, SameOperators DEF InStep, SumWord, Second!SumWord
  <2> QED
    BY <1>5, <2>1 DEF InStep, SumWord, Second!SumWord, TwiceInv
<1>6. CASE ReturnChecksum /\ Second!ReturnChecksum
  <2>1. words # 0
    BY <1>6, PidAssumption DEF ReturnChecksum
  <2>2. chk_2 = chk /\ got = <<>>
    BY <2>1 DEF InStep
  <2>3. PICK c : got_2 = <<c>>
    BY DEF InStep
  <2>4. Append(<<>>, chk)[1] = chk
    OBVIOUS
  <2>5. Append(<<c>>, chk)[2] = chk /\ <<c>> # <<>>
    <3>1. <<c>> \in Seq({c, chk}) /\ Len(<<c>>) = 1
      OBVIOUS
    <3> QED
      BY <3>1
  <2>6. got' = Append(<<>>, chk) /\ pc' = "init"
    BY <1>6, <2>2 DEF ReturnChecksum
  <2>7. got_2' = Append(<<c>>, chk) /\ pc_2' = "exit"
    BY <1>6, <2>2, <2>3, <2>5 DEF Second!ReturnChecksum
  <2> QED
    BY <2>4, <2>5, <2>6, <2>7 DEF TwiceInv
<1> QED
  BY <1>1, <1>2, <1>3, <1>4, <1>5, <1>6, TwoSteps

(* bench_init clears everything that the control loop reads, so that a     *)
(* second run goes through the same steps as the first one and returns the *)
(* same checksum (pidctl.c:96, host_test.c:37).  Neither comes to a halt   *)
(* over that: to the end both can take the step that the other one takes.  *)
THEOREM PidRunsAlike == TwiceSpec => [](SameChecksum /\ BothGoOn)
<1> DEFINE Inv == PlaceInv /\ TwiceInv
<1>1. TwiceInit => Inv
  BY PidAssumption DEF TwiceInit, TwiceInv, PidInit, PlaceInv
<1>2. Inv /\ [TwiceNext]_twiceVars => Inv'
  <2> SUFFICES ASSUME PlaceInv, TwiceInv, [TwiceNext]_twiceVars PROVE Inv'
    OBVIOUS
  <2>1. CASE UNCHANGED twiceVars
    BY <2>1 DEF TwiceInv, TwiceInit, PidInit, InStep, PlaceInv, twiceVars, pidVars,
       Second!pidVars
  <2>2. CASE Second!bench_init /\ UNCHANGED pidVars
    <3>1. TwiceInit
      BY <2>2 DEF TwiceInv, InStep, Second!bench_init
    <3>2. InStep'
      BY <2>2, <3>1, SameOperators DEF TwiceInit, PidInit, InStep, Second!bench_init, pidVars
    <3> QED
      BY <2>2, <3>2 DEF TwiceInv, PlaceInv, pidVars
  <2>3. CASE pc_2 # "init" /\ PidNext /\ Second!PidNext
    <3>1. InStep
      BY <2>3 DEF TwiceInv, TwiceInit, Second!PidNext, Second!NewSetpoints,
         Second!ChannelTick, Second!NextTick, Second!TicksDone, Second!SumWord,
         Second!ReturnChecksum, Second!bench_init
    <3> QED
      BY <2>3, <3>1, InStepKept, PlaceStep
  <2> QED
    BY <2>1, <2>2, <2>3 DEF TwiceNext
<1>3. Inv => SameChecksum
  BY DEF TwiceInv, SameChecksum, TwiceInit, PidInit, InStep
<1>4. Inv => BothGoOn
  <2> SUFFICES ASSUME PlaceInv, TwiceInv, pc_2 # "exit" PROVE PidGoesOn /\ Second!PidGoesOn
    BY DEF BothGoOn
  <2>1. CASE TwiceInit
    BY <2>1, PlaceNumbers DEF TwiceInit, PidInit, Second!PidGoesOn
  <2>2. CASE InStep
    <3>1. PidGoesOn
      BY <2>2, PlaceNumbers DEF InStep
    <3> QED
      BY <2>2, <3>1 DEF InStep, PidGoesOn, Second!PidGoesOn
  <2> QED
    BY <2>1, <2>2 DEF TwiceInv
<1> HIDE DEF Inv
<1> QED
  BY <1>1, <1>2, <1>3, <1>4, PTL DEF TwiceSpec
=============================================================================
