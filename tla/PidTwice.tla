------------------------------ MODULE PidTwice ------------------------------
(***************************************************************************)
(* Two runs of the control loop in step with each other, as in AccelTwice: *)
(* the one that bench_init begins in a fresh memory, and in a second       *)
(* memory, the names with _2, the one that it begins after another run.    *)
(***************************************************************************)
EXTENDS Pid

VARIABLES ch_2, setpoint_2, load_2, tickno_2, pc_2, t_2, i_2, chk_2, words_2, got_2

Second == INSTANCE Pid WITH
  ch <- ch_2, setpoint <- setpoint_2, load <- load_2, tickno <- tickno_2,
  pc <- pc_2, t <- t_2, i <- i_2, chk <- chk_2, words <- words_2, got <- got_2

twiceVars == <<pidVars, Second!pidVars>>

(* The second run has still to begin, with the checksum of the first one   *)
(* at hand.                                                                *)
TwiceInit ==
  /\ PidInit
  /\ pc_2 = "init"
  /\ got_2 = <<got_2[1]>>

(* bench_init, and then a step of each.                                    *)
TwiceNext ==
  \/ Second!bench_init /\ UNCHANGED pidVars
  \/ pc_2 # "init" /\ PidNext /\ Second!PidNext

TwiceSpec == TwiceInit /\ [][TwiceNext]_twiceVars

-----------------------------------------------------------------------------
(* The runs in step.                                                       *)
InStep ==
  /\ ch_2 = ch /\ setpoint_2 = setpoint /\ load_2 = load /\ tickno_2 = tickno
  /\ pc_2 = pc /\ t_2 = t /\ i_2 = i /\ words_2 = words
  /\ pc \in {"tick", "channels", "sum"}
  /\ words # 0 => chk_2 = chk
  /\ got = <<>> /\ got_2 = <<got_2[1]>>

(* When the first run returns, so does the second one, and the checksums   *)
(* they return are the same.                                               *)
SameChecksum == pc = "init" => pc_2 = "exit" /\ got_2[2] = got[1]

(* Both have a next step, or both have returned.                           *)
BothGoOn == pc_2 # "exit" => PidGoesOn /\ Second!PidGoesOn

TwiceInv ==
  \/ TwiceInit
  \/ InStep
  \/ pc = "init" /\ pc_2 = "exit" /\ got_2[2] = got[1]
=============================================================================
