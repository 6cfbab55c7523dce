----------------------------- MODULE AccelTwice -----------------------------
(***************************************************************************)
(* Two runs of bench_run in step with each other: the one that bench_init  *)
(* begins in a fresh memory, and in a second memory the one that it begins *)
(* after another run, whatever that has left there.  host_test.c demands   *)
(* the same checksum of both.                                              *)
(*                                                                         *)
(* The names with _2 are the second memory.                                *)
(***************************************************************************)
EXTENDS AccelBench

VARIABLES
  ring_2, src_buf_2, res_buf_2, ring_head_2, ring_tail_2, hw_cursor_2,
  hw_inflight_2, hw_res_2, irq_2, mode_2, last_2, stat_2, cal_div_2,
  hw_seq_2, out_ring_2, out_head_2, out_tail_2, out_dropped_2,
  level_count_2, chan_mag_2, chan_events_2, accel_pc_2, back_2, frame_2,
  accel_chk_2, accel_words_2, accel_got_2

Second == INSTANCE AccelBench WITH
  ring <- ring_2, src_buf <- src_buf_2, res_buf <- res_buf_2,
  ring_head <- ring_head_2, ring_tail <- ring_tail_2,
  hw_cursor <- hw_cursor_2, hw_inflight <- hw_inflight_2, hw_res <- hw_res_2,
  irq <- irq_2, mode <- mode_2, last <- last_2, stat <- stat_2,
  cal_div <- cal_div_2, hw_seq <- hw_seq_2, out_ring <- out_ring_2,
  out_head <- out_head_2, out_tail <- out_tail_2,
  out_dropped <- out_dropped_2, level_count <- level_count_2,
  chan_mag <- chan_mag_2, chan_events <- chan_events_2,
  accel_pc <- accel_pc_2, back <- back_2, frame <- frame_2,
  accel_chk <- accel_chk_2, accel_words <- accel_words_2,
  accel_got <- accel_got_2

twiceVars == <<benchVars, Second!benchVars>>

(* The second run has still to begin, with the checksum of the first one   *)
(* at hand; of its memory nothing is known, but that no call is in         *)
(* progress.                                                               *)
TwiceInit ==
  /\ BenchInit
  /\ accel_pc_2 = "init" /\ mode_2 = "task"
  /\ accel_got_2 = <<accel_got_2[1]>>

(* bench_init, and then a step of each.                                    *)
TwiceNext ==
  \/ Second!accel_init /\ UNCHANGED benchVars
  \/ accel_pc_2 # "init" /\ BenchNext /\ Second!BenchNext

TwiceSpec == TwiceInit /\ [][TwiceNext]_twiceVars

-----------------------------------------------------------------------------
(* The memory that the manager reads: not the staging areas, which         *)
(* bench_init leaves alone.                                                *)
SameMgr ==
  /\ ring_2 = ring /\ res_buf_2 = res_buf /\ ring_head_2 = ring_head
  /\ ring_tail_2 = ring_tail /\ hw_cursor_2 = hw_cursor /\ hw_inflight_2 = hw_inflight
  /\ hw_res_2 = hw_res /\ irq_2 = irq /\ mode_2 = mode
  /\ stat_2 = stat /\ cal_div_2 = cal_div /\ hw_seq_2 = hw_seq
  /\ out_ring_2 = out_ring /\ out_head_2 = out_head /\ out_tail_2 = out_tail
  /\ out_dropped_2 = out_dropped /\ level_count_2 = level_count /\ chan_mag_2 = chan_mag
  /\ chan_events_2 = chan_events
  /\ ring_head \in Slot /\ ring_tail \in Slot

SameMemory ==
  SameMgr /\ accel_pc_2 = accel_pc /\ frame_2 = frame /\ accel_words_2 = accel_words

Calls  == {"tick", "service", "retire", "drain"}
Places == {"room", "reports", "advance", "flush", "sum"} \cup Calls

(* The runs in step: what a run writes before it reads it may differ until *)
(* then.                                                                   *)
InStep ==
  /\ SameMemory
  /\ accel_pc \in Places
  /\ accel_pc \in Calls => back_2 = back /\ back \in Places
  /\ accel_words # 0 => accel_chk_2 = accel_chk
  /\ accel_got = <<>> /\ accel_got_2 = <<accel_got_2[1]>>

(* When the first run returns, so does the second one, and the checksums   *)
(* they return are the same.                                               *)
SameChecksum ==
  accel_pc = "init" => accel_pc_2 = "exit" /\ accel_got_2[2] = accel_got[1]

(* Both have a next step, or both have returned.                           *)
BothGoOn == accel_pc_2 # "exit" => CanGoOn /\ Second!CanGoOn

TwiceInv ==
  \/ TwiceInit
  \/ InStep
  \/ accel_pc = "init" /\ accel_pc_2 = "exit" /\ accel_got_2[2] = accel_got[1]
=============================================================================
