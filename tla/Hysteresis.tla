----------------------------- MODULE Hysteresis -----------------------------
(***************************************************************************)
(* The threshold decision of channel_tick in                               *)
(* benchmarks/custom/pidctl/pidctl.c: three states with different          *)
(* thresholds on the way up and on the way down, and one debounce counter. *)
(***************************************************************************)
EXTENDS Integers

CONSTANTS WARN_HI, WARN_LO, ALARM_HI, ALARM_LO, DEBOUNCE_N

ASSUME HysteresisAssumption ==
  /\ WARN_HI \in Nat /\ WARN_LO \in Nat /\ ALARM_HI \in Nat /\ ALARM_LO \in Nat
  /\ WARN_LO < WARN_HI /\ ALARM_LO < ALARM_HI /\ WARN_HI < ALARM_LO
  /\ DEBOUNCE_N \in Nat \ {0}

ST_OK == 0
ST_WARN == 1
ST_ALARM == 2
SupState == {ST_OK, ST_WARN, ST_ALARM}

(* A mutant: the comparison with ALARM_LO the wrong way round.             *)
TargetAlarmReversed(state, aerr) ==
  IF state = ST_OK THEN IF aerr > WARN_HI THEN ST_WARN ELSE ST_OK
  ELSE IF state = ST_WARN THEN IF aerr > ALARM_HI THEN ST_ALARM
                               ELSE IF aerr < WARN_LO THEN ST_OK ELSE ST_WARN
  ELSE IF aerr > ALARM_LO THEN ST_WARN ELSE ST_ALARM

(* A mutant: the comparison with WARN_LO the wrong way round.              *)
TargetWarnReversed(state, aerr) ==
  IF state = ST_OK THEN IF aerr > WARN_HI THEN ST_WARN ELSE ST_OK
  ELSE IF state = ST_WARN THEN IF aerr > ALARM_HI THEN ST_ALARM
                               ELSE IF aerr > WARN_LO THEN ST_OK ELSE ST_WARN
  ELSE IF aerr < ALARM_LO THEN ST_WARN ELSE ST_ALARM

(* The state a sample with absolute error aerr speaks for.                 *)
Target(state, aerr) ==
  IF state = ST_OK THEN IF aerr > WARN_HI THEN ST_WARN ELSE ST_OK
  ELSE IF state = ST_WARN THEN IF aerr > ALARM_HI THEN ST_ALARM
                               ELSE IF aerr < WARN_LO THEN ST_OK ELSE ST_WARN
  ELSE IF aerr < ALARM_LO THEN ST_WARN ELSE ST_ALARM

(* A mutant: the else branches that clear the counter are missing.         *)
SuperviseWithoutClear(state, debounce, aerr) ==
  LET to == Target(state, aerr)
  IN IF to = state THEN [state |-> state, debounce |-> debounce]
     ELSE IF debounce + 1 >= DEBOUNCE_N THEN [state |-> to, debounce |-> 0]
     ELSE [state |-> state, debounce |-> debounce + 1]

(* A mutant: the counter is not cleared when the state changes.            *)
SuperviseKeepsCount(state, debounce, aerr) ==
  LET to == Target(state, aerr)
  IN IF to = state THEN [state |-> state, debounce |-> 0]
     ELSE IF debounce + 1 >= DEBOUNCE_N THEN [state |-> to, debounce |-> debounce + 1]
     ELSE [state |-> state, debounce |-> debounce + 1]

(* One sample: the state and the counter after it.                         *)
Supervise(state, debounce, aerr) ==
  LET to == Target(state, aerr)
  IN IF to = state THEN [state |-> state, debounce |-> 0]
     ELSE IF debounce + 1 >= DEBOUNCE_N THEN [state |-> to, debounce |-> 0]
     ELSE [state |-> state, debounce |-> debounce + 1]
=============================================================================
