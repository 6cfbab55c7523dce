----------------------------- MODULE Supervisor -----------------------------
(***************************************************************************)
(* The supervision of one pidctl channel under any sequence of errors: what*)
(* the loop in Pid does with the errors its plant produces, seen alone.    *)
(***************************************************************************)
EXTENDS Hysteresis

CONSTANT Errors   \* the absolute errors a sample may show

ASSUME SupervisorAssumption == Errors \subseteq Nat

VARIABLES
  aerr,      \* the last sample
  state,
  debounce,
  agreeing,  \* how many samples in a row, with the last, spoke for the same change
  since      \* samples since the state changed, up to DEBOUNCE_N

supVars == <<aerr, state, debounce, agreeing, since>>

Init ==
  /\ aerr = 0
  /\ state = ST_OK /\ debounce = 0
  /\ agreeing = 0
  /\ since = 0

(* One call of channel_tick.  agreeing and since only record the past.     *)
Sample ==
  /\ aerr' \in Errors
  /\ LET s  == Supervise(state, debounce, aerr')
         to == Target(state, aerr')
     IN /\ state' = s.state /\ debounce' = s.debounce
        /\ agreeing' = IF to = state \/ state' # state THEN 0
                       ELSE IF agreeing > 0 /\ to = Target(state, aerr) THEN agreeing + 1
                       ELSE 1
        /\ since' = IF state' # state THEN 0
                    ELSE IF since < DEBOUNCE_N THEN since + 1 ELSE since

(* bench_run calls channel_tick for every channel in every tick.           *)
Spec == Init /\ [][Sample]_supVars /\ WF_supVars(Sample)

-----------------------------------------------------------------------------
SupTypeOK ==
  /\ aerr \in Errors \cup {0}
  /\ state \in SupState
  /\ debounce \in 0 .. DEBOUNCE_N - 1
  /\ agreeing \in 0 .. DEBOUNCE_N
  /\ since \in 0 .. DEBOUNCE_N

(* A state lasts for DEBOUNCE_N samples at least, whatever the errors do,  *)
(* and the levels follow each other without a jump.                        *)
Dwells ==
  [][state' # state => /\ since + 1 >= DEBOUNCE_N
                       /\ state' - state \in {-1, 1}]_supVars

(* The two outer states are left for DEBOUNCE_N samples in a row past the  *)
(* threshold, the last one included.                                       *)
OuterStatesDebounced ==
  [][state' # state /\ state # ST_WARN => agreeing + 1 >= DEBOUNCE_N]_supVars

(* pidctl.c:190-191: "a debounce counter so a single noisy sample cannot   *)
(* flip the state": a change needs a sample before it that spoke for it.   *)
NoSingleSampleFlip ==
  [][state' # state => agreeing > 0 /\ Target(state, aerr) = state']_supVars

(* A fault that persists is raised, and one that is over is cleared.       *)
FaultsFollowed ==
  /\ <>[](aerr > ALARM_HI) => <>[](state = ST_ALARM)
  /\ <>[](aerr < WARN_LO)  => <>[](state = ST_OK)
=============================================================================
