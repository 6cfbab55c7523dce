----------------------------- MODULE AccelBench -----------------------------
(***************************************************************************)
(* The accelmgr benchmark as a program: bench_run drives the accelerator   *)
(* manager of AccelMgr through FRAMES frames and returns a checksum of the *)
(* state it ends in; host_test.c runs it twice, from bench_init each time, *)
(* and compares the two checksums with each other and with the value of    *)
(* bench_expected.                                                         *)
(*                                                                         *)
(* accel_pc is the place in bench_run, back the place to go on from when   *)
(* the call in progress returns.  bench_run is sequential: one action at   *)
(* most is enabled in a state.                                             *)
(***************************************************************************)
EXTENDS AccelMgr, Words

CONSTANTS
  FRAMES,        \* frames submitted in a run
  QUEUE_DEPTH,   \* descriptors the engine is kept at
  accel_expected \* the value of bench_expected

BenchConstants ==
  /\ FRAMES \in Nat \ {0}
  /\ QUEUE_DEPTH \in 1 .. RING_N
  /\ Job = {[chan |-> f % NCHAN, nsamp |-> 32 + ((f * 13) % 64), seq |-> f] :
              f \in 0 .. FRAMES - 1}

(* The engine can be kept at QUEUE_DEPTH descriptors without filling the   *)
(* ring, and the report queue holds what is retired between two calls of   *)
(* drain_reports, eight frames apart, and what was in flight at the first. *)
Provisioned == QUEUE_DEPTH < RING_N /\ QUEUE_DEPTH + 8 < OUT_N

VARIABLES
  accel_pc, back,         \* where bench_run is
  frame,                  \* the loop counter
  accel_chk, accel_words, \* the checksum in progress and the words mixed into it
  accel_got               \* the checksums returned so far

benchVars == <<mgrVars, accel_pc, back, frame, accel_chk, accel_words, accel_got>>

BenchInit ==
  /\ InitMgr
  /\ accel_pc = "room" /\ back = "none"
  /\ frame = 0
  /\ accel_chk = Word(0) /\ accel_words = 0
  /\ accel_got = <<>>

-----------------------------------------------------------------------------
FrameJob == [chan |-> frame % NCHAN, nsamp |-> 32 + ((frame * 13) % 64), seq |-> frame]

sumVars == <<accel_chk, accel_words, accel_got>>

Goto(place)        == accel_pc' = place /\ UNCHANGED <<back, frame, sumVars>>
Call(place, after) == accel_pc' = place /\ back' = after /\ UNCHANGED <<frame, sumVars>>
Return             == accel_pc' = back /\ UNCHANGED <<back, frame, sumVars>>
Stay               == UNCHANGED <<accel_pc, back, frame, sumVars>>

(* while (ring_used () >= QUEUE_DEPTH) { accel_tick (); service_engine (); } *)
MakeRoom ==
  /\ accel_pc = "room"
  /\ ring_used >= QUEUE_DEPTH
  /\ Call("tick", "room")
  /\ UNCHANGED mgrVars

(* if (!submit (...)) { accel_tick (); service_engine (); continue; }, and *)
(* an extra tick after every second frame.                                 *)
SubmitFrame ==
  /\ accel_pc = "room"
  /\ ring_used < QUEUE_DEPTH
  /\ IF Full
     THEN SubmitFull /\ Call("tick", "advance")
     ELSE /\ Submit(FrameJob)
          /\ IF frame % 2 = 1 THEN Call("tick", "reports") ELSE Goto("reports")

(* A mutant: the reports drained too seldom.                               *)
ReportsSeldom ==
  /\ accel_pc = "reports"
  /\ IF frame % 64 = 63
     THEN DrainReports /\ Call("drain", "advance")
     ELSE Goto("advance") /\ UNCHANGED mgrVars

(* if ((frame & 7) == 7) drain_reports ();                                 *)
Reports ==
  /\ accel_pc = "reports"
  /\ IF frame % 8 = 7
     THEN DrainReports /\ Call("drain", "advance")
     ELSE Goto("advance") /\ UNCHANGED mgrVars

Advance ==
  /\ accel_pc = "advance"
  /\ frame' = frame + 1
  /\ accel_pc' = IF frame + 1 < FRAMES THEN "room" ELSE "flush"
  /\ UNCHANGED <<mgrVars, back, accel_chk, accel_words, accel_got>>

(* A mutant: the last loop only answers interrupts.                        *)
FlushWithoutTick ==
  /\ accel_pc = "flush"
  /\ IF ring_used # 0
     THEN Call("service", "flush") /\ UNCHANGED mgrVars
     ELSE DrainReports /\ Call("drain", "sum")

(* A mutant: the checksum taken before the last reports are handed on.     *)
FlushUndrained ==
  /\ accel_pc = "flush"
  /\ UNCHANGED mgrVars
  /\ IF ring_used # 0 THEN Call("tick", "flush") ELSE Goto("sum")

(* while (ring_used () != 0) ...; drain_reports ();                        *)
Flush ==
  /\ accel_pc = "flush"
  /\ IF ring_used # 0
     THEN Call("tick", "flush") /\ UNCHANGED mgrVars
     ELSE DrainReports /\ Call("drain", "sum")

-----------------------------------------------------------------------------
(* The calls.  accel_tick is called with a doorbell pending only, so that  *)
(* its early return (hw_inflight == 0) has no action: were it reached the  *)
(* program would stop here and CheckEnds would fail.                       *)
CallTick == accel_pc = "tick" /\ Tick /\ Goto("service")

CallService == accel_pc = "service" /\ Service /\ Goto("retire")
CallRetire  == accel_pc = "retire" /\ PopDone /\ Stay
RetireEnds  == accel_pc = "retire" /\ PopDoneExit /\ Return
CallDrain   == accel_pc = "drain" /\ DrainOne /\ Stay
DrainEnds   == accel_pc = "drain" /\ DrainExit /\ Return

-----------------------------------------------------------------------------
(* chan << 28 | level << 26 | seq << 20 | avg                              *)
ReportWord(r) ==
  [hi |-> r.chan * 4096 + r.level * 1024 + r.seq * 16 + (r.avg \div 65536),
   lo |-> r.avg % 65536]

StateWords ==
  << Word(stat.bytes), Word(stat.results), Word(stat.sum), Word(stat.min),
     Word(stat.max), Word(stat.over), Word(stat.full), Word(stat.acc_mv),
     Word(cal_div), Word(out_head), Word(out_tail), Word(out_dropped), Word(hw_seq) >>
  \o [i \in 1 .. 4 |-> Word(level_count[i - 1])]
  \o [i \in 1 .. 2 * NCHAN |->
        LET c == (i - 1) \div 2
        IN IF i % 2 = 1 THEN Word(chan_mag[c]) ELSE Word(chan_events[c])]
  \o [i \in 1 .. OUT_N |-> ReportWord(out_ring[i - 1])]

(* chk = chk * 1000003u + ..., one word after the other.                   *)
AccelSumWord ==
  /\ accel_pc = "sum"
  /\ accel_words < Len(StateWords)
  /\ accel_chk' = Mix(IF accel_words = 0 THEN Word(stat.frames) ELSE accel_chk,
                     StateWords[accel_words + 1])
  /\ accel_words' = accel_words + 1
  /\ UNCHANGED <<mgrVars, accel_pc, back, frame, accel_got>>

AccelReturns ==
  /\ accel_pc = "sum"
  /\ accel_words = Len(StateWords)
  /\ accel_got' = Append(accel_got, accel_chk)
  /\ accel_pc' = IF accel_got = <<>> THEN "init" ELSE "exit"
  /\ UNCHANGED <<mgrVars, back, frame, accel_chk, accel_words>>

(* A mutant: the calibration of the first run left in place.               *)
InitKeepsCalibration ==
  /\ accel_pc = "init"
  /\ ring' = [s \in Slot |-> FreshDesc]
  /\ res_buf' = [s \in Slot |-> 0]
  /\ ring_head' = 0 /\ ring_tail' = 0
  /\ hw_cursor' = 0 /\ hw_inflight' = 0 /\ hw_res' = 0 /\ hw_seq' = 0
  /\ irq' = FALSE
  /\ stat' = NoStat
  /\ out_ring' = [s \in OutSlot |-> EmptyReport]
  /\ out_head' = 0 /\ out_tail' = 0 /\ out_dropped' = 0
  /\ level_count' = [l \in Level |-> 0]
  /\ chan_mag' = [c \in AppChannel |-> 0] /\ chan_events' = [c \in AppChannel |-> 0]
  /\ accel_pc' = "room" /\ frame' = 0 /\ accel_words' = 0
  /\ UNCHANGED <<src_buf, mode, last, cal_div, back, accel_chk, accel_got>>

(* bench_init before the second run.  The staging areas are not cleared;   *)
(* last is no variable of the program.                                     *)
accel_init ==
  /\ accel_pc = "init"
  /\ ring' = [s \in Slot |-> FreshDesc]
  /\ res_buf' = [s \in Slot |-> 0]
  /\ ring_head' = 0 /\ ring_tail' = 0
  /\ hw_cursor' = 0 /\ hw_inflight' = 0 /\ hw_res' = 0 /\ hw_seq' = 0
  /\ irq' = FALSE
  /\ stat' = NoStat
  /\ cal_div' = 4096
  /\ out_ring' = [s \in OutSlot |-> EmptyReport]
  /\ out_head' = 0 /\ out_tail' = 0 /\ out_dropped' = 0
  /\ level_count' = [l \in Level |-> 0]
  /\ chan_mag' = [c \in AppChannel |-> 0] /\ chan_events' = [c \in AppChannel |-> 0]
  /\ accel_pc' = "room" /\ frame' = 0 /\ accel_words' = 0
  /\ UNCHANGED <<src_buf, mode, last, back, accel_chk, accel_got>>

BenchNext ==
  \/ MakeRoom \/ SubmitFrame \/ Reports \/ Advance \/ Flush
  \/ CallTick \/ CallService \/ CallRetire \/ RetireEnds \/ CallDrain \/ DrainEnds
  \/ AccelSumWord \/ AccelReturns \/ accel_init

BenchSpec == BenchInit /\ [][BenchNext]_benchVars

(* What the actions of each place wait for: no wait is for ever.           *)
CanGoOn ==
  \/ accel_pc = "room" /\ (ring_used >= QUEUE_DEPTH \/ mode = "task")
  \/ accel_pc = "reports" /\ (frame % 8 # 7 \/ mode = "task")
  \/ accel_pc = "flush" /\ (ring_used # 0 \/ mode = "task")
  \/ accel_pc = "tick" /\ mode = "task" /\ hw_inflight # 0
  \/ accel_pc = "service" /\ mode = "task"
  \/ accel_pc = "retire" /\ mode = "retire"
  \/ accel_pc = "drain" /\ mode = "drain"
  \/ accel_pc = "sum" /\ (accel_words < Len(StateWords) \/ accel_words = Len(StateWords))
  \/ accel_pc \in {"advance", "init"}

-----------------------------------------------------------------------------
(* host_test.c: the exit status of the two runs.                           *)
AccelExitStatus ==
  IF accel_got[2] # accel_got[1] THEN 2
  ELSE IF accel_got[1] # accel_expected THEN 1 ELSE 0

(* The engine is kept at QUEUE_DEPTH descriptors at most, no submission is *)
(* refused and no report is overwritten: the loops of bench_run serve the  *)
(* ring and the report queue in time (accelmgr.c:431, 310).  When a run    *)
(* ends every frame was retired and its report handed on, and the engine   *)
(* has nothing left to do.                                                 *)
KeepsUp ==
  /\ ring_used <= QUEUE_DEPTH
  /\ stat.full = 0 /\ out_dropped = 0
  /\ accel_pc = "sum" =>
       /\ stat.frames = FRAMES /\ HandedOn = FRAMES
       /\ ring_used = 0 /\ hw_inflight = 0
=============================================================================
