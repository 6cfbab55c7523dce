--------------------------------- MODULE Pid ---------------------------------
(***************************************************************************)
(* The control loop of benchmarks/custom/pidctl/pidctl.c: NCH channels,    *)
(* each with its sensor, PID controller, plant model and supervision, all  *)
(* in integers.  A product is renormalised by >> 8, which rounds towards   *)
(* minus infinity, as \div does here.                                      *)
(*                                                                         *)
(* The tables of the program are constants.  pc, t and i are the place in  *)
(* bench_run; host_test.c runs it twice.                                   *)
(***************************************************************************)
EXTENDS Hysteresis, Sequences, Words

CONSTANTS
  NCH, ADC_MAX, PWM_MAX, TICKS,
  kp, ki, kd, gain, lag, span,   \* per channel
  full_scale_mv,
  sp_profile, load_tab, noise_tab,
  bench_expected

Channel == 0 .. NCH - 1
INTEG_MAX == 4 * PWM_MAX

Within(low, high) == {n \in Int : low <= n /\ n <= high}
Int8  == Within(-128, 127)
Int16 == Within(-32768, 32767)

(* A 12-bit sensor and a 10-bit actuator; gains are int16_t in Q8.8, and   *)
(* lag, the fraction of the distance covered in a tick, is 1 at most.      *)
ASSUME PidAssumption ==
  /\ NCH \in Nat \ {0} /\ TICKS \in Nat
  /\ ADC_MAX = 4095 /\ PWM_MAX = 1023 /\ full_scale_mv = 3300
  /\ kp \in [Channel -> Int16] /\ ki \in [Channel -> Int16] /\ kd \in [Channel -> Int16]
  /\ gain \in [Channel -> Within(0, 32767)]
  /\ lag \in [Channel -> Within(0, 256)]
  /\ span \in [Channel -> Within(1, 4096)]
  /\ sp_profile \in [0 .. 7 -> Within(0, 4095)]
  /\ load_tab \in [0 .. 7 -> Int8]
  /\ noise_tab \in [0 .. 15 -> Int8]

VARIABLES
  ch,         \* the channels, without the two fields bench_run writes:
  setpoint, load,
  tickno,
  pc, t, i,   \* the place in bench_run
  chk, words, \* the checksum in progress and the words mixed into it
  got         \* the checksums returned so far

pidVars == <<ch, setpoint, load, tickno, pc, t, i, chk, words, got>>

FreshChannel ==
  [integ |-> 0, prev_err |-> 0, out |-> 0, reading_mv |-> 0, y |-> 0,
   state |-> ST_OK, debounce |-> 0,
   warn_count |-> 0, alarm_count |-> 0, sat_count |-> 0]

PidInit ==
  /\ ch = [c \in Channel |-> FreshChannel]
  /\ setpoint = [c \in Channel |-> sp_profile[0]]
  /\ load = [c \in Channel |-> 0]
  /\ tickno = 0
  /\ pc = "tick" /\ t = 0 /\ i = 0
  /\ chk = Word(0) /\ words = 0
  /\ got = <<>>

-----------------------------------------------------------------------------
(* One control tick of channel c, at time n.                               *)

(* A mutant: no limits, neither anti-windup nor those of the signals.      *)
Unclamped(x, low, high) == x

Clamp(x, low, high) == IF x > high THEN high ELSE IF x < low THEN low ELSE x

Err(c)   == setpoint[c] - ch[c].y
(* A mutant: the integral not renormalised from Q8.8.                      *)
IntegUnscaled(c) == Clamp(ch[c].integ + ki[c] * Err(c), -INTEG_MAX, INTEG_MAX)

Integ(c) == Clamp(ch[c].integ + ((ki[c] * Err(c)) \div 256), -INTEG_MAX, INTEG_MAX)

(* p + integ + d, before and after the limits of the actuator.             *)
Command(c) ==
  ((kp[c] * Err(c)) \div 256) + Integ(c) + ((kd[c] * (Err(c) - ch[c].prev_err)) \div 256)
Actuated(c) == Clamp(Command(c), 0, PWM_MAX)

(* The plant: a first-order lag towards the commanded level.               *)
Distance(c) == (((Actuated(c) * gain[c]) \div 256) - load[c]) - ch[c].y
Plant(c, n) ==
  Clamp(ch[c].y + ((Distance(c) * lag[c]) \div 256) + noise_tab[n % 16], 0, ADC_MAX)

Abs(x)    == IF x < 0 THEN -x ELSE x
AbsErr(c) == Abs(Err(c))

(* The channel after one tick at time n, and its counters.                 *)
Counted(n, event) == IF event THEN n + 1 ELSE n

Ticked(c, n) ==
  LET s == Supervise(ch[c].state, ch[c].debounce, AbsErr(c))
  IN [reading_mv  |-> (ch[c].y * full_scale_mv) \div span[c],
      integ       |-> Integ(c),
      prev_err    |-> Err(c),
      out         |-> Actuated(c),
      sat_count   |-> Counted(ch[c].sat_count, Command(c) # Actuated(c)),
      y           |-> Plant(c, n),
      state       |-> s.state,
      debounce    |-> s.debounce,
      warn_count  |-> Counted(ch[c].warn_count, ch[c].state = ST_OK /\ s.state = ST_WARN),
      alarm_count |-> Counted(ch[c].alarm_count, ch[c].state = ST_WARN /\ s.state = ST_ALARM)]

channel_tick(c, n) ==
  /\ ch' = [ch EXCEPT ![c] = Ticked(c, n)]
  /\ UNCHANGED <<setpoint, load>>

-----------------------------------------------------------------------------
(* bench_run.                                                              *)

(* Every 256 ticks the next setpoint and load, each channel one ahead.     *)
Step(c) == ((t \div 256) + c) % 8

NewSetpoints ==
  /\ pc = "tick" /\ t < TICKS
  /\ IF t % 256 = 0
     THEN /\ setpoint' = [c \in Channel |-> sp_profile[Step(c)]]
          /\ load' = [c \in Channel |-> load_tab[Step(c)]]
     ELSE UNCHANGED <<setpoint, load>>
  /\ pc' = "channels"
  /\ i' = 0
  /\ UNCHANGED <<ch, tickno, t, chk, words, got>>

ChannelTick ==
  /\ pc = "channels" /\ i < NCH
  /\ channel_tick(i, t + i)
  /\ i' = i + 1
  /\ UNCHANGED <<tickno, pc, t, chk, words, got>>

NextTick ==
  /\ pc = "channels" /\ i = NCH
  /\ tickno' = tickno + 1
  /\ t' = t + 1
  /\ pc' = "tick"
  /\ UNCHANGED <<ch, setpoint, load, i, chk, words, got>>

TicksDone ==
  /\ pc = "tick" /\ t = TICKS
  /\ pc' = "sum"
  /\ UNCHANGED <<ch, setpoint, load, tickno, t, i, chk, words, got>>

(* The words of the checksum, eight for a channel.                         *)
StateWord(n) ==
  LET c == ch[n \div 8]
  IN Word(<<c.y, c.out, c.integ, c.reading_mv, c.state,
            c.warn_count, c.alarm_count, c.sat_count>>[(n % 8) + 1])

SumWord ==
  /\ pc = "sum" /\ words < 8 * NCH
  /\ chk' = Mix(IF words = 0 THEN Word(tickno) ELSE chk, StateWord(words))
  /\ words' = words + 1
  /\ UNCHANGED <<ch, setpoint, load, tickno, pc, t, i, got>>

ReturnChecksum ==
  /\ pc = "sum" /\ words = 8 * NCH
  /\ got' = Append(got, chk)
  /\ pc' = IF got = <<>> THEN "init" ELSE "exit"
  /\ UNCHANGED <<ch, setpoint, load, tickno, t, i, chk, words>>

(* A mutant: the second run takes over the state of the supervision.       *)
InitKeepsState ==
  /\ pc = "init"
  /\ ch' = [c \in Channel |-> [FreshChannel EXCEPT !.state = ch[c].state]]
  /\ setpoint' = [c \in Channel |-> sp_profile[0]]
  /\ load' = [c \in Channel |-> 0]
  /\ tickno' = 0
  /\ pc' = "tick" /\ t' = 0 /\ i' = 0 /\ words' = 0
  /\ UNCHANGED <<chk, got>>

(* bench_init before the second run.                                       *)
bench_init ==
  /\ pc = "init"
  /\ ch' = [c \in Channel |-> FreshChannel]
  /\ setpoint' = [c \in Channel |-> sp_profile[0]]
  /\ load' = [c \in Channel |-> 0]
  /\ tickno' = 0
  /\ pc' = "tick" /\ t' = 0 /\ i' = 0 /\ words' = 0
  /\ UNCHANGED <<chk, got>>

PidNext ==
  \/ NewSetpoints \/ ChannelTick \/ NextTick \/ TicksDone
  \/ SumWord \/ ReturnChecksum \/ bench_init

PidSpec == PidInit /\ [][PidNext]_pidVars

(* The guard of the statement bench_run is at.                             *)
PidGoesOn ==
  \/ pc = "tick" /\ (t < TICKS \/ t = TICKS)
  \/ pc = "channels" /\ (i < NCH \/ i = NCH)
  \/ pc = "sum" /\ (words < 8 * NCH \/ words = 8 * NCH)
  \/ pc = "init"

-----------------------------------------------------------------------------
(* The ranges the controller keeps its signals in.                         *)
SignalsOK ==
  \A c \in Channel :
    /\ ch[c].y \in Within(0, ADC_MAX)
    /\ ch[c].out \in Within(0, PWM_MAX)
    /\ ch[c].integ \in Within(-INTEG_MAX, INTEG_MAX)
    /\ ch[c].prev_err \in Within(-ADC_MAX, ADC_MAX)
    /\ setpoint[c] \in Within(0, ADC_MAX)
    /\ load[c] \in Int8

(* |a * b| <= 2^31 - 1, without computing the product.                     *)
Fits(a, b) == a = 0 \/ Abs(b) <= 2147483647 \div Abs(a)

(* pidctl.c:12-17: every product of the next tick fits in an int32_t.      *)
ProductsFit ==
  \A c \in Channel :
    /\ Fits(full_scale_mv, ch[c].y)
    /\ Fits(kp[c], Err(c))
    /\ Fits(ki[c], Err(c))
    /\ Fits(kd[c], Err(c) - ch[c].prev_err)
    /\ Fits(gain[c], Actuated(c))
    /\ Fits(lag[c], Distance(c))

(* The sensor and actuator signals stay in range, and nothing computed     *)
(* from them overflows.                                                    *)
ArithmeticInRange == SignalsOK /\ ProductsFit

(* pidctl.c:98-101: a step saturates the actuator only for a while.        *)
MostlyUnclipped == pc = "sum" => \A c \in Channel : 2 * ch[c].sat_count < TICKS

(* host_test.c: the exit status of the two runs.                           *)
ExitStatus ==
  IF got[2] # got[1] THEN 2 ELSE IF got[1] # bench_expected THEN 1 ELSE 0
=============================================================================
