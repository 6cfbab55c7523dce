--------------------------- MODULE AccelBenchProofs ---------------------------
(***************************************************************************)
(* bench_run calls the accelerator manager so that nothing is refused or   *)
(* dropped, for any number of frames and every ring and report queue that  *)
(* is large enough, and so that its loops end.                             *)
(***************************************************************************)
EXTENDS AccelTwice, AccelMgrProofs

-----------------------------------------------------------------------------
(* bench_run keeps up with its frames, whatever the tables.                *)

(* What the calls of bench_run do to the numbers it depends on.            *)
LEMMA Numbers ==
  ASSUME MgrInv
  PROVE  /\ ring_used \in Nat /\ ring_used = Gap(ring_tail, ring_head)
         /\ hw_inflight \in Nat /\ hw_inflight <= ring_used
         /\ hw_cursor = ring_tail => hw_inflight = ring_used
         /\ stat.frames \in Nat /\ HandedOn \in Nat
         /\ Len(OutQueue) = OutGap(out_tail, out_head) /\ Len(OutQueue) \in Nat
         /\ stat.frames = HandedOn + Len(OutQueue) + out_dropped /\ out_dropped \in Nat
<1>1. RingInv /\ MgrTypeOK /\ ReportsConserved
  BY DEF MgrInv
<1>2. ring_head \in Slot /\ ring_tail \in Slot /\ hw_cursor \in Slot
  BY <1>1 DEF RingInv, RingTypeOK
<1>3. /\ Gap(ring_tail, ring_head) \in Nat /\ Gap(ring_tail, hw_cursor) \in Nat
      /\ Gap(hw_cursor, ring_head) \in Nat
  BY <1>2, GapNat
<1>4. /\ ring_used = Gap(ring_tail, ring_head) /\ hw_inflight = Gap(hw_cursor, ring_head)
      /\ Gap(ring_tail, ring_head) = Gap(ring_tail, hw_cursor) + Gap(hw_cursor, ring_head)
  BY <1>1, Positions
<1>5. stat.frames \in Nat /\ out_dropped \in Nat
  BY <1>1 DEF MgrTypeOK, Stats
<1>6. HandedOn \in Nat
  BY <1>1 DEF MgrTypeOK, Level, HandedOn
<1>7. Len(OutQueue) = OutGap(out_tail, out_head) /\ Len(OutQueue) \in Nat
  BY <1>1, QueueIsContents, ContentsLen, OutGapNat DEF MgrTypeOK, Buffer
<1>8. stat.frames = HandedOn + Len(OutQueue) + out_dropped
  BY <1>1 DEF ReportsConserved
<1>9. QED
  BY <1>3, <1>4, <1>5, <1>6, <1>7, <1>8

LEMMA SubmitNumbers ==
  ASSUME MgrInv, NEW j \in Job, Submit(j)
  PROVE  /\ MgrInv' /\ ring_used' = ring_used + 1
         /\ UNCHANGED <<hw_cursor, ring_tail, stat, out_dropped, HandedOn, mode>>
<1>1. MgrInv'
  BY MgrSubmitInv
<1>2. /\ ring_head' = Succ(ring_head) /\ ~Full
      /\ UNCHANGED <<hw_cursor, ring_tail, mode, stat, reportVars, summaryVars>>
  BY DEF Submit, submit
<1>3. ring_head \in Slot /\ ring_tail \in Slot
  BY DEF MgrInv, RingInv, RingTypeOK
<1>4. Gap(ring_tail, ring_head) < RING_N - 1
  BY <1>2, Numbers, RingAssumption DEF Full, RING_MASK
<1>5. Gap(ring_tail, Succ(ring_head)) = Gap(ring_tail, ring_head) + 1
  BY <1>3, <1>4, GapGrows
<1>6. ring_used' = Gap(ring_tail', ring_head')
  BY DEF ring_used, Gap
<1>7. ring_used' = ring_used + 1
  BY <1>2, <1>5, <1>6, Numbers
<1>8. QED
  BY <1>1, <1>2, <1>7 DEF reportVars, summaryVars, HandedOn

LEMMA TickNumbers ==
  ASSUME MgrInv, Tick
  PROVE  /\ MgrInv' /\ ring_used' = ring_used
         /\ UNCHANGED <<ring_tail, stat, out_dropped, HandedOn, mode>>
BY MgrTickInv DEF Tick, accel_tick, ring_used, reportVars, summaryVars, HandedOn

(* A frame is retired, and its report does not find the queue full.        *)
LEMMA PopNumbers ==
  ASSUME MgrInv, PopDone, Len(OutQueue) < OUT_N - 1
  PROVE  /\ MgrInv' /\ ring_used > 0 /\ ring_used' = ring_used - 1
         /\ stat'.frames = stat.frames + 1 /\ stat'.full = stat.full
         /\ UNCHANGED <<out_dropped, HandedOn, mode>>
<1>1. MgrInv'
  BY PopDoneInv
<1>2. /\ ring_used # 0 /\ ring_tail' = Succ(ring_tail)
      /\ UNCHANGED <<ring_head, mode, summaryVars>>
  BY DEF PopDone, pop_done, CanRetire
<1>3. ring_used > 0
  BY <1>2, Numbers
<1>4. ring_used' = ring_used - 1
  <2>1. ring_head \in Slot /\ ring_tail \in Slot
    BY DEF MgrInv, RingInv, RingTypeOK
  <2>2. Gap(Succ(ring_tail), ring_head) = Gap(ring_tail, ring_head) - 1
    BY <1>3, <2>1, Numbers, GapShrinks
  <2>3. ring_used' = Gap(ring_tail', ring_head')
    BY DEF ring_used, Gap
  <2>4. QED
    BY <1>2, <2>2, <2>3, Numbers
<1>5. stat'.frames = stat.frames + 1 /\ stat'.full = stat.full
  BY DEF PopDone, Accumulated
<1>6. out_dropped' = out_dropped
  <2>1. out_head \in OutSlot /\ out_tail \in OutSlot
    BY DEF MgrInv, MgrTypeOK
  <2>2. OutGap(out_tail, out_head) # OUT_N - 1
    BY Numbers, OnTheQueue
  <2>3. OutSucc(out_head) # out_tail
    BY <2>1, <2>2, OnTheQueue, FullCircle
  <2>4. PICK rep : PushReport(rep)
    BY DEF PopDone
  <2>5. QED
    BY <2>3, <2>4 DEF PushReport
<1>7. QED
  BY <1>1, <1>2, <1>3, <1>4, <1>5, <1>6 DEF summaryVars, HandedOn

(* When pop_done leaves its loop, everything executed has been retired.    *)
LEMMA ExitNumbers ==
  ASSUME MgrInv, PopDoneExit
  PROVE  /\ MgrInv' /\ ring_used' = ring_used /\ hw_cursor' = ring_tail'
         /\ UNCHANGED <<stat, out_dropped, HandedOn>> /\ mode' = "task"
<1>1. MgrInv'
  BY LoopStepInv
<1>2. /\ ~CanRetire /\ mode' = "task"
      /\ UNCHANGED <<ring_head, ring_tail, hw_cursor, stat, reportVars, summaryVars>>
  BY DEF PopDoneExit, pop_done_exit
<1>3. ring_tail \in Slot /\ hw_cursor \in Slot /\ ring_head \in Slot
  BY DEF MgrInv, RingInv, RingTypeOK
<1>4. Gap(ring_tail, hw_cursor) = 0
  <2>1. Gap(ring_tail, hw_cursor) \in Nat
    BY <1>3, GapNat
  <2>2. CASE ring_used = 0
    <3>1. Gap(ring_tail, ring_head) = Gap(ring_tail, hw_cursor) + Gap(hw_cursor, ring_head)
      BY Positions DEF MgrInv
    <3>2. Gap(hw_cursor, ring_head) \in Nat
      BY <1>3, GapNat
    <3>3. QED
      BY <2>1, <2>2, <3>1, <3>2, Numbers
  <2>3. CASE ~ring[ring_tail].status.done
    <3>1. ~(Gap(ring_tail, ring_tail) < Gap(ring_tail, hw_cursor))
      BY <1>3, <2>3 DEF MgrInv, RingInv, Agreement, Between
    <3>2. QED
      BY <1>3, <2>1, <3>1, GapSelf
  <2>4. QED
    BY <1>2, <2>2, <2>3 DEF CanRetire
<1>5. hw_cursor = ring_tail
  BY <1>3, <1>4, GapSelf, GapInjective
<1>6. QED
  BY <1>1, <1>2, <1>5 DEF ring_used, reportVars, summaryVars, HandedOn

LEMMA LoopNumbers ==
  ASSUME MgrInv, Service \/ DrainReports \/ DrainExit
  PROVE  /\ MgrInv' /\ ring_used' = ring_used
         /\ UNCHANGED <<hw_cursor, ring_tail, stat, out_dropped, HandedOn>>
         /\ mode' = IF Service THEN "retire" ELSE IF DrainReports THEN "drain" ELSE "task"
<1>1. MgrInv'
  BY LoopStepInv
<1>2. UNCHANGED <<ring_head, ring_tail, hw_cursor, stat, reportVars, summaryVars>>
  BY DEF Service, service_engine, DrainReports, DrainExit
<1>3. mode' = IF Service THEN "retire" ELSE IF DrainReports THEN "drain" ELSE "task"
  BY DEF Service, service_engine, DrainReports, DrainExit
<1>4. QED
  BY <1>1, <1>2, <1>3 DEF ring_used, reportVars, summaryVars, HandedOn

LEMMA DrainNumbers ==
  ASSUME MgrInv, DrainOne
  PROVE  /\ MgrInv' /\ ring_used' = ring_used /\ HandedOn' = HandedOn + 1
         /\ UNCHANGED <<hw_cursor, ring_tail, stat, out_dropped, mode>>
<1>1. MgrInv'
  BY DrainOneInv
<1>2. UNCHANGED <<ring_head, ring_tail, hw_cursor, stat, out_dropped, mode>>
  BY DEF DrainOne, ringVars
<1>3. Len(OutQueue') = Len(OutQueue) - 1
  BY Drained DEF MgrInv
<1>4. HandedOn' \in Nat /\ stat'.frames = HandedOn' + Len(OutQueue') + out_dropped'
  <2>1. MgrTypeOK' /\ ReportsConserved'
    BY <1>1 DEF MgrInv
  <2>2. HandedOn' \in Nat
    BY <2>1 DEF MgrTypeOK, Level, HandedOn
  <2>3. QED
    BY <2>1, <2>2 DEF ReportsConserved
<1>5. HandedOn' = HandedOn + 1
  BY <1>2, <1>3, <1>4, Numbers
<1>6. QED
  BY <1>1, <1>2, <1>5 DEF ring_used
LEMMA KeptNumbers ==
  ASSUME MgrInv, UNCHANGED mgrVars
  PROVE  /\ MgrInv' /\ ring_used' = ring_used
         /\ UNCHANGED <<hw_cursor, ring_tail, stat, out_dropped, HandedOn, mode>>
BY MgrKept DEF mgrVars, ringVars, reportVars, summaryVars, ring_used, HandedOn

(* The state bench_init leaves: that of InitMgr, with whatever is staged.  *)
Cleared ==
  /\ ring = [s \in Slot |-> FreshDesc]
  /\ src_buf \in [Slot -> Frames]
  /\ res_buf = [s \in Slot |-> 0]
  /\ ring_head = 0 /\ ring_tail = 0
  /\ hw_cursor = 0 /\ hw_inflight = 0 /\ hw_res = 0 /\ hw_seq = 0
  /\ irq = FALSE
  /\ mode = "task"
  /\ stat = NoStat
  /\ cal_div = 4096
  /\ out_ring = [s \in OutSlot |-> EmptyReport]
  /\ out_head = 0 /\ out_tail = 0 /\ out_dropped = 0
  /\ level_count = [l \in Level |-> 0]
  /\ chan_mag = [c \in AppChannel |-> 0] /\ chan_events = [c \in AppChannel |-> 0]

LEMMA ClearedNumbers ==
  Cleared => MgrInv /\ ring_used = 0 /\ HandedOn = 0 /\ stat.frames = 0 /\ stat.full = 0
<1> SUFFICES ASSUME Cleared
             PROVE  MgrInv /\ ring_used = 0 /\ HandedOn = 0 /\ stat.frames = 0 /\ stat.full = 0
  OBVIOUS
<1>1. 0 \in OutSlot /\ 0 \in Slot /\ Gap(0, 0) = 0
  BY OnTheQueue, OnTheRing, GapSelf DEF Circle
<1>2. RingTypeOK
  <2>1. FreshDesc \in [chan : Nat, bytes : Nat, seq : Nat, status : Status]
    BY DEF FreshDesc, NotDone, Status
  <2>2. 0 \in 0 .. NBlocks - 1 /\ 0 \in 0 .. RING_MASK
    BY RingAssumption DEF RING_MASK
  <2> QED
    BY <1>1, <2>1, <2>2 DEF Cleared, RingTypeOK
<1>3. RingInv /\ ring_used = 0
  <2>1. Agreement /\ ring_used = 0
    BY <1>1, GapCases DEF Cleared, Agreement, ring_used, Gap, Between, FreshDesc, NotDone, Slot
  <2>2. StagedAsDescribed
    BY <1>1, GapCases DEF Cleared, StagedAsDescribed, InUse, Between, Slot
  <2>3. NoLostInterrupt
    BY <1>1 DEF Cleared, NoLostInterrupt, FreshDesc, NotDone
  <2> QED
    BY <1>2, <2>1, <2>2, <2>3 DEF RingInv
<1>4. ChansOK
  BY DEF Cleared, ChansOK, FreshDesc
<1>5. MgrTypeOK
  <2>1. NoStat \in Stats
    BY DEF NoStat, Stats
  <2>2. EmptyReport \in ReportWords
    BY AvgRangeType DEF EmptyReport, ReportWords, Level
  <2> QED
    BY <1>1, <2>1, <2>2 DEF Cleared, MgrTypeOK
<1>6. FramesConserved
  BY <1>1, MgrAssumption DEF Cleared, FramesConserved, NoStat
<1>7. HandedOn = 0 /\ stat.frames = 0 /\ stat.full = 0
  BY DEF Cleared, HandedOn, NoStat, Level
<1>8. ReportsConserved
  <2>1. OutGap(out_tail, out_head) = 0
    BY <1>1, OnTheQueue, DistSelf DEF Cleared
  <2>2. Len(OutQueue) = 0
    BY <2>1 DEF OutQueue
  <2>3. QueuedEvents = {}
    BY <1>1, <2>1, OutGapNat DEF QueuedEvents, OutUsed, Cleared
  <2> QED
    BY <1>7, <2>2, <2>3, FS_EmptySet DEF Cleared, ReportsConserved, NoStat, Level
<1> QED
  BY <1>3, <1>4, <1>5, <1>6, <1>7, <1>8 DEF MgrInv

-----------------------------------------------------------------------------
(* The invariant of bench_run.                                             *)

(* The frame of this iteration has been submitted.                         *)
Ahead ==
  \/ accel_pc \in {"reports", "advance"}
  \/ accel_pc \in {"tick", "service", "retire"} /\ back = "reports"
  \/ accel_pc = "drain" /\ back = "advance"

Submitted == IF Ahead THEN frame + 1 ELSE frame

Looping == accel_pc = "room" \/ Ahead \/ (accel_pc \in {"tick", "service", "retire"} /\ back = "room")

PlaceOK ==
  /\ accel_pc \in {"room", "reports", "advance", "flush", "tick", "service", "retire",
             "drain", "sum", "init", "exit"}
  /\ mode = IF accel_pc \in {"retire", "drain"} THEN accel_pc ELSE "task"
  /\ accel_pc \in {"tick", "service", "retire"} => back \in {"room", "reports", "flush"}
  /\ accel_pc = "drain" => back \in {"advance", "sum"}
  /\ frame \in Nat
  /\ IF Looping THEN frame < FRAMES ELSE frame = FRAMES

(* Outside service_engine everything executed has been retired, the engine *)
(* is never ticked with nothing to do, and the last loop leaves nothing.   *)
Served ==
  /\ accel_pc \notin {"service", "retire"} => hw_cursor = ring_tail
  /\ accel_pc = "tick" => ring_used > 0
  /\ accel_pc \in {"sum", "init", "exit"} \/ (accel_pc = "drain" /\ back = "sum") => ring_used = 0

Accounted ==
  /\ stat.full = 0 /\ out_dropped = 0
  /\ stat.frames + ring_used = Submitted
  /\ ring_used <= QUEUE_DEPTH

(* Of the frames up to the last multiple of eight, at most the descriptors *)
(* the engine is kept at have not been handed on.                          *)
HandedInTime ==
  /\ 8 * (frame \div 8) <= HandedOn + QUEUE_DEPTH
  /\ accel_pc = "advance" /\ frame % 8 = 7 => frame + 1 <= HandedOn + QUEUE_DEPTH
  /\ accel_pc \in {"sum", "init", "exit"} => HandedOn = FRAMES

BenchInv == MgrInv /\ PlaceOK /\ Served /\ Accounted /\ HandedInTime

(* The constants as numbers.                                               *)
LEMMA Provision ==
  ASSUME BenchConstants, Provisioned
  PROVE  /\ FRAMES \in Nat /\ FRAMES > 0
         /\ QUEUE_DEPTH \in Nat /\ QUEUE_DEPTH > 0
         /\ RING_N \in Nat /\ QUEUE_DEPTH <= RING_MASK
         /\ OUT_N \in Nat /\ QUEUE_DEPTH + 8 < OUT_N
BY RingAssumption, MgrAssumption DEF BenchConstants, Provisioned, RING_MASK

LEMMA BenchStart ==
  ASSUME BenchConstants, BenchInit
  PROVE  BenchInv
<1>1. InitMgr /\ MgrInv
  BY InitMgrInv DEF BenchInit
<1>2. FRAMES \in Nat /\ FRAMES > 0 /\ QUEUE_DEPTH \in Nat
  BY DEF BenchConstants
<1>3. accel_pc = "room" /\ frame = 0 /\ mode = "task" /\ hw_cursor = ring_tail
  BY <1>1 DEF BenchInit, InitMgr, InitRing
<1>4. stat.frames = 0 /\ stat.full = 0 /\ out_dropped = 0 /\ HandedOn = 0
  BY <1>1 DEF InitMgr, NoStat, HandedOn, Level
<1>5. ring_used = 0
  <2>1. ring_head = 0 /\ ring_tail = 0 /\ 0 \in Slot
    BY <1>1, OnTheRing DEF InitMgr, InitRing, Circle
  <2>2. Gap(ring_tail, ring_head) = 0
    BY <2>1, GapSelf
  <2> QED
    BY <1>1, <2>2, Numbers
<1>6. PlaceOK
  BY <1>2, <1>3 DEF PlaceOK, Looping
<1>7. Served
  BY <1>3 DEF Served
<1>8. Accounted
  BY <1>2, <1>3, <1>4, <1>5 DEF Accounted, Submitted, Ahead
<1>9. HandedInTime
  BY <1>2, <1>3, <1>4 DEF HandedInTime
<1> QED
  BY <1>1, <1>6, <1>7, <1>8, <1>9 DEF BenchInv

-----------------------------------------------------------------------------
(* Each action of bench_run keeps the invariant.                           *)

LEMMA MakeRoomBench ==
  ASSUME BenchConstants, Provisioned, BenchInv, MakeRoom
  PROVE  BenchInv'
<1>1. /\ accel_pc = "room" /\ accel_pc' = "tick" /\ back' = "room" /\ frame' = frame
      /\ ring_used >= QUEUE_DEPTH /\ UNCHANGED mgrVars
  BY DEF MakeRoom, Call
<1>2. /\ MgrInv' /\ ring_used' = ring_used
      /\ UNCHANGED <<hw_cursor, ring_tail, stat, out_dropped, HandedOn, mode>>
  BY <1>1, KeptNumbers DEF BenchInv
<1>3. PlaceOK'
  BY <1>1, <1>2 DEF BenchInv, PlaceOK, Looping, Ahead
<1>4. Served'
  BY <1>1, <1>2, Provision, Numbers DEF BenchInv, Served
<1>5. Accounted'
  BY <1>1, <1>2 DEF BenchInv, Accounted, Submitted, Ahead
<1>6. HandedInTime'
  BY <1>1, <1>2 DEF BenchInv, HandedInTime
<1> QED
  BY <1>2, <1>3, <1>4, <1>5, <1>6 DEF BenchInv

LEMMA SubmitFrameBench ==
  ASSUME BenchConstants, Provisioned, BenchInv, SubmitFrame
  PROVE  BenchInv'
<1>1. accel_pc = "room" /\ ring_used < QUEUE_DEPTH
  BY DEF SubmitFrame
<1>2. frame \in Nat /\ frame < FRAMES
  BY <1>1 DEF BenchInv, PlaceOK, Looping
<1>3. ~Full
  BY <1>1, Provision, Numbers, RingAssumption DEF BenchInv, Full, RING_MASK
<1>4. /\ Submit(FrameJob) /\ frame' = frame
      /\ \/ accel_pc' = "tick" /\ back' = "reports"
         \/ accel_pc' = "reports" /\ back' = back
  BY <1>3 DEF SubmitFrame, Call, Goto
<1>5. FrameJob \in Job
  <2>1. frame \in 0 .. FRAMES - 1
    BY <1>2, Provision
  <2> QED
    BY <2>1 DEF BenchConstants, FrameJob
<1>6. /\ MgrInv' /\ ring_used' = ring_used + 1
      /\ UNCHANGED <<hw_cursor, ring_tail, stat, out_dropped, HandedOn, mode>>
  BY <1>4, <1>5, SubmitNumbers DEF BenchInv
<1>7. PlaceOK'
  BY <1>1, <1>2, <1>4, <1>6 DEF BenchInv, PlaceOK, Looping, Ahead
<1>8. Served'
  BY <1>1, <1>4, <1>6, Provision, Numbers DEF BenchInv, Served
<1>9. Accounted'
  <2>1. stat.frames + ring_used = frame /\ Submitted' = frame + 1
    BY <1>1, <1>4 DEF BenchInv, Accounted, Submitted, Ahead
  <2>2. stat.frames \in Nat /\ ring_used \in Nat
    BY Numbers DEF BenchInv
  <2>3. stat'.frames + ring_used' = frame + 1 /\ ring_used' <= QUEUE_DEPTH
    BY <1>1, <1>2, <1>6, <2>1, <2>2, Provision
  <2> QED
    BY <1>6, <2>1, <2>3 DEF BenchInv, Accounted
<1>10. HandedInTime'
  BY <1>1, <1>4, <1>6 DEF BenchInv, HandedInTime
<1> QED
  BY <1>6, <1>7, <1>8, <1>9, <1>10 DEF BenchInv

LEMMA ReportsBench ==
  ASSUME BenchConstants, Provisioned, BenchInv, Reports
  PROVE  BenchInv'
<1>1. /\ accel_pc = "reports" /\ frame' = frame
      /\ \/ frame % 8 = 7 /\ DrainReports /\ accel_pc' = "drain" /\ back' = "advance"
         \/ frame % 8 # 7 /\ accel_pc' = "advance" /\ back' = back /\ UNCHANGED mgrVars
  BY DEF Reports, Call, Goto
<1>2. /\ MgrInv' /\ ring_used' = ring_used
      /\ UNCHANGED <<hw_cursor, ring_tail, stat, out_dropped, HandedOn>>
      /\ mode' = IF accel_pc' = "drain" THEN "drain" ELSE mode
  <2>1. CASE DrainReports /\ accel_pc' = "drain"
    <3>1. mode' = "drain"
      BY <2>1 DEF DrainReports
    <3> QED
      BY <2>1, <3>1, LoopNumbers DEF BenchInv
  <2>2. CASE accel_pc' = "advance" /\ UNCHANGED mgrVars
    BY <2>2, KeptNumbers DEF BenchInv
  <2> QED
    BY <1>1, <2>1, <2>2
<1>3. PlaceOK'
  BY <1>1, <1>2 DEF BenchInv, PlaceOK, Looping, Ahead
<1>4. Served'
  BY <1>1, <1>2 DEF BenchInv, Served
<1>5. Accounted'
  BY <1>1, <1>2 DEF BenchInv, Accounted, Submitted, Ahead
<1>6. HandedInTime'
  BY <1>1, <1>2 DEF BenchInv, HandedInTime
<1> QED
  BY <1>2, <1>3, <1>4, <1>5, <1>6 DEF BenchInv

LEMMA AdvanceBench ==
  ASSUME BenchConstants, Provisioned, BenchInv, Advance
  PROVE  BenchInv'
<1>1. /\ accel_pc = "advance" /\ frame' = frame + 1 /\ back' = back /\ UNCHANGED mgrVars
      /\ accel_pc' = IF frame + 1 < FRAMES THEN "room" ELSE "flush"
  BY DEF Advance
<1>2. /\ MgrInv' /\ ring_used' = ring_used
      /\ UNCHANGED <<hw_cursor, ring_tail, stat, out_dropped, HandedOn, mode>>
  BY <1>1, KeptNumbers DEF BenchInv
<1>3. frame \in Nat /\ frame < FRAMES
  BY <1>1 DEF BenchInv, PlaceOK, Looping, Ahead
<1>4. PlaceOK'
  BY <1>1, <1>2, <1>3, Provision DEF BenchInv, PlaceOK, Looping, Ahead
<1>5. Served'
  BY <1>1, <1>2 DEF BenchInv, Served
<1>6. Accounted'
  BY <1>1, <1>2, <1>3 DEF BenchInv, Accounted, Submitted, Ahead
<1>7. HandedInTime'
  <2>1. HandedOn \in Nat /\ QUEUE_DEPTH \in Nat
    BY Numbers, Provision DEF BenchInv
  <2>2. /\ 8 * (frame \div 8) <= HandedOn + QUEUE_DEPTH
        /\ frame % 8 = 7 => frame + 1 <= HandedOn + QUEUE_DEPTH
    BY <1>1 DEF BenchInv, HandedInTime
  <2>3. 8 * ((frame + 1) \div 8) <= HandedOn + QUEUE_DEPTH
    BY <1>3, <2>1, <2>2
  <2> QED
    BY <1>1, <1>2, <2>3 DEF HandedInTime
<1> QED
  BY <1>2, <1>4, <1>5, <1>6, <1>7 DEF BenchInv

LEMMA FlushBench ==
  ASSUME BenchConstants, Provisioned, BenchInv, Flush
  PROVE  BenchInv'
<1>1. /\ accel_pc = "flush" /\ frame' = frame
      /\ \/ ring_used # 0 /\ UNCHANGED mgrVars /\ accel_pc' = "tick" /\ back' = "flush"
         \/ ring_used = 0 /\ DrainReports /\ accel_pc' = "drain" /\ back' = "sum"
  BY DEF Flush, Call
<1>2. /\ MgrInv' /\ ring_used' = ring_used
      /\ UNCHANGED <<hw_cursor, ring_tail, stat, out_dropped, HandedOn>>
      /\ mode' = IF accel_pc' = "drain" THEN "drain" ELSE mode
  <2>1. CASE DrainReports /\ accel_pc' = "drain"
    <3>1. mode' = "drain"
      BY <2>1 DEF DrainReports
    <3> QED
      BY <2>1, <3>1, LoopNumbers DEF BenchInv
  <2>2. CASE accel_pc' = "tick" /\ UNCHANGED mgrVars
    BY <2>2, KeptNumbers DEF BenchInv
  <2> QED
    BY <1>1, <2>1, <2>2
<1>3. PlaceOK'
  BY <1>1, <1>2 DEF BenchInv, PlaceOK, Looping, Ahead
<1>4. Served'
  BY <1>1, <1>2, Numbers DEF BenchInv, Served
<1>5. Accounted'
  BY <1>1, <1>2 DEF BenchInv, Accounted, Submitted, Ahead
<1>6. HandedInTime'
  BY <1>1, <1>2 DEF BenchInv, HandedInTime
<1> QED
  BY <1>2, <1>3, <1>4, <1>5, <1>6 DEF BenchInv

LEMMA EngineBench ==
  ASSUME BenchConstants, Provisioned, BenchInv, CallTick \/ CallService
  PROVE  BenchInv'
<1>1. /\ frame' = frame /\ back' = back
      /\ \/ accel_pc = "tick" /\ accel_pc' = "service" /\ Tick
         \/ accel_pc = "service" /\ accel_pc' = "retire" /\ Service
  BY DEF CallTick, CallService, Goto
<1>2. /\ MgrInv' /\ ring_used' = ring_used
      /\ UNCHANGED <<ring_tail, stat, out_dropped, HandedOn>>
      /\ mode' = IF accel_pc' = "retire" THEN "retire" ELSE mode
  <2>1. CASE Tick /\ accel_pc' = "service"
    BY <2>1, TickNumbers DEF BenchInv
  <2>2. CASE Service /\ accel_pc' = "retire"
    BY <2>2, LoopNumbers DEF BenchInv
  <2> QED
    BY <1>1, <2>1, <2>2
<1>3. PlaceOK'
  BY <1>1, <1>2 DEF BenchInv, PlaceOK, Looping, Ahead
<1>4. Served'
  BY <1>1, <1>2 DEF BenchInv, Served
<1>5. Accounted'
  BY <1>1, <1>2 DEF BenchInv, Accounted, Submitted, Ahead
<1>6. HandedInTime'
  BY <1>1, <1>2 DEF BenchInv, HandedInTime
<1> QED
  BY <1>2, <1>3, <1>4, <1>5, <1>6 DEF BenchInv

(* The reports waiting are those of fewer than eight frames and of the     *)
(* descriptors that were in flight when the queue was last drained.        *)
LEMMA RetireBench ==
  ASSUME BenchConstants, Provisioned, BenchInv, CallRetire
  PROVE  BenchInv'
<1>1. /\ accel_pc = "retire" /\ PopDone /\ frame' = frame /\ back' = back /\ accel_pc' = accel_pc
  BY DEF CallRetire, Stay
<1>2. ring_used > 0
  <2>1. ring_used # 0
    BY <1>1 DEF PopDone, pop_done, CanRetire
  <2> QED
    BY <2>1, Numbers DEF BenchInv
<1>3. Len(OutQueue) < OUT_N - 1
  <2>1. /\ stat.frames = HandedOn + Len(OutQueue) /\ HandedOn \in Nat
        /\ Len(OutQueue) \in Nat /\ stat.frames \in Nat /\ ring_used \in Nat
    BY Numbers DEF BenchInv, Accounted
  <2>2. frame \in Nat /\ stat.frames + ring_used <= frame + 1
    BY <2>1 DEF BenchInv, PlaceOK, Accounted, Submitted
  <2>3. 8 * (frame \div 8) <= HandedOn + QUEUE_DEPTH
    BY DEF BenchInv, HandedInTime
  <2>4. frame + 1 <= 8 * (frame \div 8) + 8
    BY <2>2
  <2> QED
    BY <1>2, <2>1, <2>2, <2>3, <2>4, Provision
<1>4. /\ MgrInv' /\ ring_used' = ring_used - 1
      /\ stat'.frames = stat.frames + 1 /\ stat'.full = stat.full
      /\ UNCHANGED <<out_dropped, HandedOn, mode>>
  BY <1>1, <1>3, PopNumbers DEF BenchInv
<1>5. PlaceOK'
  BY <1>1, <1>4 DEF BenchInv, PlaceOK, Looping, Ahead
<1>6. Served'
  BY <1>1 DEF Served
<1>7. Accounted'
  <2>1. stat.frames + ring_used = Submitted /\ ring_used <= QUEUE_DEPTH
    BY DEF BenchInv, Accounted
  <2>2. Submitted' = Submitted
    BY <1>1 DEF Submitted, Ahead
  <2>3. stat.frames \in Nat /\ ring_used \in Nat
    BY Numbers DEF BenchInv
  <2>4. stat'.frames + ring_used' = stat.frames + ring_used /\ ring_used' <= QUEUE_DEPTH
    BY <1>4, <2>1, <2>3, Provision
  <2> QED
    BY <1>4, <2>1, <2>2, <2>4 DEF BenchInv, Accounted
<1>8. HandedInTime'
  BY <1>1, <1>4 DEF BenchInv, HandedInTime
<1> QED
  BY <1>4, <1>5, <1>6, <1>7, <1>8 DEF BenchInv

LEMMA RetireEndsBench ==
  ASSUME BenchConstants, Provisioned, BenchInv, RetireEnds
  PROVE  BenchInv'
<1>1. /\ accel_pc = "retire" /\ PopDoneExit /\ frame' = frame /\ back' = back /\ accel_pc' = back
  BY DEF RetireEnds, Return
<1>2. /\ MgrInv' /\ ring_used' = ring_used /\ hw_cursor' = ring_tail'
      /\ UNCHANGED <<stat, out_dropped, HandedOn>> /\ mode' = "task"
  BY <1>1, ExitNumbers DEF BenchInv
<1>3. back \in {"room", "reports", "flush"}
  BY <1>1 DEF BenchInv, PlaceOK
<1>4. PlaceOK'
  BY <1>1, <1>2, <1>3 DEF BenchInv, PlaceOK, Looping, Ahead
<1>5. Served'
  BY <1>1, <1>2, <1>3 DEF Served
<1>6. Accounted'
  BY <1>1, <1>2, <1>3 DEF BenchInv, Accounted, Submitted, Ahead
<1>7. HandedInTime'
  BY <1>1, <1>2, <1>3 DEF BenchInv, HandedInTime
<1> QED
  BY <1>2, <1>4, <1>5, <1>6, <1>7 DEF BenchInv

LEMMA DrainBench ==
  ASSUME BenchConstants, Provisioned, BenchInv, CallDrain
  PROVE  BenchInv'
<1>1. /\ accel_pc = "drain" /\ DrainOne /\ frame' = frame /\ back' = back /\ accel_pc' = accel_pc
  BY DEF CallDrain, Stay
<1>2. /\ MgrInv' /\ ring_used' = ring_used /\ HandedOn' = HandedOn + 1
      /\ UNCHANGED <<hw_cursor, ring_tail, stat, out_dropped, mode>>
  BY <1>1, DrainNumbers DEF BenchInv
<1>3. PlaceOK'
  BY <1>1, <1>2 DEF BenchInv, PlaceOK, Looping, Ahead
<1>4. Served'
  BY <1>1, <1>2 DEF BenchInv, Served
<1>5. Accounted'
  BY <1>1, <1>2 DEF BenchInv, Accounted, Submitted, Ahead
<1>6. HandedInTime'
  <2>1. frame \in Nat /\ HandedOn \in Nat /\ QUEUE_DEPTH \in Nat
        /\ 8 * (frame \div 8) <= HandedOn + QUEUE_DEPTH
    BY Numbers, Provision DEF BenchInv, PlaceOK, HandedInTime
  <2>2. 8 * (frame \div 8) <= HandedOn + 1 + QUEUE_DEPTH
    BY <2>1
  <2> QED
    BY <1>1, <1>2, <2>2 DEF HandedInTime
<1> QED
  BY <1>2, <1>3, <1>4, <1>5, <1>6 DEF BenchInv

(* After drain_reports every report has been handed on.                    *)
LEMMA DrainEndsBench ==
  ASSUME BenchConstants, Provisioned, BenchInv, DrainEnds
  PROVE  BenchInv'
<1>1. /\ accel_pc = "drain" /\ DrainExit /\ frame' = frame /\ back' = back /\ accel_pc' = back
  BY DEF DrainEnds, Return
<1>2. /\ MgrInv' /\ ring_used' = ring_used
      /\ UNCHANGED <<hw_cursor, ring_tail, stat, out_dropped, HandedOn>>
  BY <1>1, LoopNumbers DEF BenchInv
<1>3. mode' = "task" /\ out_tail = out_head
  BY <1>1 DEF DrainExit
<1>4. back \in {"advance", "sum"}
  BY <1>1 DEF BenchInv, PlaceOK
<1>5. HandedOn = stat.frames
  <2>1. Len(OutQueue) = 0
    <3>1. out_tail \in OutSlot
      BY DEF BenchInv, MgrInv, MgrTypeOK
    <3>2. OutGap(out_tail, out_head) = 0
      BY <1>3, <3>1, OnTheQueue, DistSelf
    <3> QED
      BY <3>2, Numbers DEF BenchInv
  <2> QED
    BY <2>1, Numbers DEF BenchInv, Accounted
<1>6. PlaceOK'
  BY <1>1, <1>2, <1>3, <1>4 DEF BenchInv, PlaceOK, Looping, Ahead
<1>7. Served'
  BY <1>1, <1>2, <1>4 DEF BenchInv, Served
<1>8. Accounted'
  BY <1>1, <1>2, <1>4 DEF BenchInv, Accounted, Submitted, Ahead
<1>9. HandedInTime'
  <2>1. /\ stat.frames \in Nat /\ ring_used \in Nat /\ frame \in Nat
        /\ stat.frames + ring_used = Submitted /\ ring_used <= QUEUE_DEPTH
    BY Numbers DEF BenchInv, Accounted, PlaceOK
  <2>2. CASE back = "advance"
    <3>1. frame + 1 <= HandedOn + QUEUE_DEPTH
      BY <1>1, <1>5, <2>1, <2>2, Provision DEF Submitted, Ahead
    <3> QED
      BY <1>1, <1>2, <2>2, <3>1 DEF BenchInv, HandedInTime
  <2>3. CASE back = "sum"
    <3>1. frame = FRAMES /\ ring_used = 0 /\ Submitted = frame
      BY <1>1, <2>3 DEF BenchInv, PlaceOK, Looping, Ahead, Served, Submitted
    <3>2. HandedOn = FRAMES
      BY <1>5, <2>1, <3>1
    <3> QED
      BY <1>1, <1>2, <2>3, <3>2 DEF BenchInv, HandedInTime
  <2> QED
    BY <1>4, <2>2, <2>3
<1> QED
  BY <1>2, <1>6, <1>7, <1>8, <1>9 DEF BenchInv

LEMMA ChecksumBench ==
  ASSUME BenchConstants, Provisioned, BenchInv, AccelSumWord \/ AccelReturns
  PROVE  BenchInv'
<1>1. /\ accel_pc = "sum" /\ frame' = frame /\ back' = back /\ UNCHANGED mgrVars
      /\ accel_pc' \in {"sum", "init", "exit"}
  BY DEF AccelSumWord, AccelReturns
<1>2. /\ MgrInv' /\ ring_used' = ring_used
      /\ UNCHANGED <<hw_cursor, ring_tail, stat, out_dropped, HandedOn, mode>>
  BY <1>1, KeptNumbers DEF BenchInv
<1>3. PlaceOK'
  BY <1>1, <1>2 DEF BenchInv, PlaceOK, Looping, Ahead
<1>4. Served'
  BY <1>1, <1>2 DEF BenchInv, Served
<1>5. Accounted'
  BY <1>1, <1>2 DEF BenchInv, Accounted, Submitted, Ahead
<1>6. HandedInTime'
  BY <1>1, <1>2 DEF BenchInv, HandedInTime
<1> QED
  BY <1>2, <1>3, <1>4, <1>5, <1>6 DEF BenchInv

LEMMA InitBench ==
  ASSUME BenchConstants, Provisioned, BenchInv, accel_init
  PROVE  BenchInv'
<1>1. Cleared'
  <2>1. src_buf \in [Slot -> Frames]
    BY DEF BenchInv, MgrInv, RingInv, RingTypeOK
  <2>2. mode = "task"
    BY DEF accel_init, BenchInv, PlaceOK
  <2> QED
    BY <2>1, <2>2 DEF accel_init, Cleared
<1>2. (MgrInv /\ ring_used = 0 /\ HandedOn = 0 /\ stat.frames = 0 /\ stat.full = 0)'
  BY <1>1, ClearedNumbers, PTL
<1>3. accel_pc' = "room" /\ frame' = 0 /\ hw_cursor' = ring_tail' /\ out_dropped' = 0 /\ mode' = "task"
  BY <1>1 DEF accel_init, Cleared
<1>4. PlaceOK'
  BY <1>3, Provision DEF PlaceOK, Looping, Ahead
<1>5. Served'
  BY <1>3 DEF Served
<1>6. Accounted'
  BY <1>2, <1>3, Provision DEF Accounted, Submitted, Ahead
<1>7. HandedInTime'
  BY <1>2, <1>3, Provision DEF HandedInTime
<1> QED
  BY <1>2, <1>4, <1>5, <1>6, <1>7 DEF BenchInv

LEMMA IdleBench ==
  ASSUME BenchInv, UNCHANGED benchVars
  PROVE  BenchInv'
<1>1. UNCHANGED <<accel_pc, back, frame>> /\ UNCHANGED mgrVars
  BY DEF benchVars
<1>2. /\ MgrInv' /\ ring_used' = ring_used
      /\ UNCHANGED <<hw_cursor, ring_tail, stat, out_dropped, HandedOn, mode>>
  BY <1>1, KeptNumbers DEF BenchInv
<1>3. PlaceOK' /\ Served' /\ Accounted' /\ HandedInTime'
  BY <1>1, <1>2 DEF BenchInv, PlaceOK, Looping, Ahead, Served, Accounted, Submitted, HandedInTime
<1> QED
  BY <1>2, <1>3 DEF BenchInv

LEMMA BenchStep ==
  ASSUME BenchConstants, Provisioned, BenchInv, [BenchNext]_benchVars
  PROVE  BenchInv'
BY MakeRoomBench, SubmitFrameBench, ReportsBench, AdvanceBench, FlushBench, EngineBench,
   RetireBench, RetireEndsBench, DrainBench, DrainEndsBench, ChecksumBench, InitBench,
   IdleBench DEF BenchNext

-----------------------------------------------------------------------------
(* bench_run serves the ring and the report queue in time for any number   *)
(* of frames and any tables: no submission is refused, no report is        *)
(* overwritten, and when a run ends every frame was retired and handed on. *)
THEOREM BenchKeepsUp ==
  ASSUME BenchConstants, Provisioned
  PROVE  BenchSpec => []KeepsUp
<1>1. BenchInit => BenchInv
  BY BenchStart
<1>2. BenchInv /\ [BenchNext]_benchVars => BenchInv'
  BY BenchStep
<1>3. BenchInv => KeepsUp
  <2> SUFFICES ASSUME BenchInv PROVE KeepsUp
    OBVIOUS
  <2>1. ring_used <= QUEUE_DEPTH /\ stat.full = 0 /\ out_dropped = 0
    BY DEF BenchInv, Accounted
  <2>2. ASSUME accel_pc = "sum"
        PROVE  /\ stat.frames = FRAMES /\ HandedOn = FRAMES
               /\ ring_used = 0 /\ hw_inflight = 0
    <3>1. ring_used = 0 /\ hw_cursor = ring_tail /\ HandedOn = FRAMES
      BY <2>2 DEF BenchInv, Served, HandedInTime
    <3>2. stat.frames + ring_used = frame /\ frame = FRAMES
      BY <2>2 DEF BenchInv, Accounted, Submitted, PlaceOK, Looping, Ahead
    <3> QED
      BY <3>1, <3>2, Numbers DEF BenchInv
  <2> QED
    BY <2>1, <2>2 DEF KeepsUp
<1> QED
  BY <1>1, <1>2, <1>3, PTL DEF BenchSpec

(* accel_tick is only called with a doorbell to serve, so that leaving its *)
(* early return out of the model takes no step from the program.           *)
THEOREM EveryTickServes ==
  ASSUME BenchConstants, Provisioned
  PROVE  BenchSpec => [](accel_pc = "tick" => hw_inflight > 0)
<1>1. BenchInit => BenchInv
  BY BenchStart
<1>2. BenchInv /\ [BenchNext]_benchVars => BenchInv'
  BY BenchStep
<1>3. BenchInv => (accel_pc = "tick" => hw_inflight > 0)
  BY Numbers DEF BenchInv, Served
<1> QED
  BY <1>1, <1>2, <1>3, PTL DEF BenchSpec

-----------------------------------------------------------------------------
(* The loops of bench_run end.  The steps left in a run are counted by what*)
(* is still to do for the frames: to submit them, to execute, to retire and*)
(* to hand them on; the rank of a place is how far the control can go      *)
(* without doing any of it.                                                *)
SumWords == 17 + 2 * NCHAN + OUT_N

Rank ==
  CASE accel_pc = "service" -> 6
    [] accel_pc = "retire" -> 5
    [] accel_pc \in {"room", "flush"} -> 4
    [] accel_pc = "reports" -> 3
    [] accel_pc = "drain" -> 2
    [] accel_pc \in {"advance", "sum"} -> 1
    [] OTHER -> 0

RunSteps == 13 * FRAMES + SumWords + 4

RunLeft ==
  4 * (FRAMES - frame) + 7 * (FRAMES - hw_seq) + (FRAMES - stat.frames)
    + (FRAMES - HandedOn) + (SumWords - accel_words) + Rank

(* The steps left in both runs.                                            *)
StepsLeft ==
  CASE accel_pc = "exit" -> 0
    [] accel_pc = "init" -> RunSteps + 1
    [] OTHER -> IF accel_got = <<>> THEN RunLeft + RunSteps + 1 ELSE RunLeft

(* The second run is the last one, and no word is mixed in twice.          *)
SumOK ==
  /\ accel_words \in 0 .. SumWords
  /\ accel_pc = "init" => accel_got # <<>>

EndInv == BenchInv /\ SumOK

LEMMA StateWordsLen == NCHAN \in Nat /\ OUT_N \in Nat => Len(StateWords) = SumWords
<1> SUFFICES ASSUME NCHAN \in Nat, OUT_N \in Nat PROVE Len(StateWords) = SumWords
  OBVIOUS
<1> DEFINE first == << Word(stat.bytes), Word(stat.results), Word(stat.sum), Word(stat.min),
                       Word(stat.max), Word(stat.over), Word(stat.full), Word(stat.acc_mv),
                       Word(cal_div), Word(out_head), Word(out_tail), Word(out_dropped),
                       Word(hw_seq) >>
           levels == [k \in 1 .. 4 |-> Word(level_count[k - 1])]
           chans == [k \in 1 .. 2 * NCHAN |->
                       LET c == (k - 1) \div 2
                       IN IF k % 2 = 1 THEN Word(chan_mag[c]) ELSE Word(chan_events[c])]
           queue == [k \in 1 .. OUT_N |-> ReportWord(out_ring[k - 1])]
           All == {first[k] : k \in 1 .. 13} \cup {levels[k] : k \in 1 .. 4}
                    \cup {chans[k] : k \in 1 .. 2 * NCHAN} \cup {queue[k] : k \in 1 .. OUT_N}
<1>1. StateWords = first \o levels \o chans \o queue
  BY Zenon DEF StateWords
<1>2. first \in Seq(All) /\ Len(first) = 13
  <2>1. Len(first) = 13
    OBVIOUS
  <2>2. \A k \in 1 .. 13 : first[k] \in All
    BY Zenon
  <2>3. first = [k \in 1 .. 13 |-> first[k]]
    OBVIOUS
  <2> HIDE DEF first, All
  <2> QED
    BY <2>1, <2>2, <2>3
<1>3. levels \in Seq(All) /\ Len(levels) = 4
  <2>1. \A k \in 1 .. 4 : levels[k] \in All
    BY Zenon
  <2>2. levels = [k \in 1 .. 4 |-> levels[k]] /\ 4 \in Nat
    OBVIOUS
  <2> HIDE DEF levels, All
  <2> QED
    BY <2>1, <2>2
<1>4. chans \in Seq(All) /\ Len(chans) = 2 * NCHAN
  <2>1. \A k \in 1 .. 2 * NCHAN : chans[k] \in All
    BY Zenon
  <2>2. chans = [k \in 1 .. 2 * NCHAN |-> chans[k]] /\ 2 * NCHAN \in Nat
    OBVIOUS
  <2> HIDE DEF chans, All
  <2> QED
    BY <2>1, <2>2
<1>5. queue \in Seq(All) /\ Len(queue) = OUT_N
  <2>1. \A k \in 1 .. OUT_N : queue[k] \in All
    BY Zenon
  <2>2. queue = [k \in 1 .. OUT_N |-> queue[k]]
    OBVIOUS
  <2> HIDE DEF queue, All
  <2> QED
    BY <2>1, <2>2
<1> HIDE DEF first, levels, chans, queue, All
<1>6. first \o levels \in Seq(All) /\ Len(first \o levels) = 17
  <2>1. first \in Seq(All) /\ levels \in Seq(All)
    BY <1>2, <1>3
  <2>2. first \o levels \in Seq(All) /\ Len(first \o levels) = Len(first) + Len(levels)
    BY <2>1, ConcatProperties
  <2> QED
    BY <1>2, <1>3, <2>2
<1>7. /\ (first \o levels) \o chans \in Seq(All)
      /\ Len((first \o levels) \o chans) = 17 + 2 * NCHAN
  BY <1>6, <1>4, ConcatProperties
<1>8. Len(((first \o levels) \o chans) \o queue) = 17 + 2 * NCHAN + OUT_N
  BY <1>7, <1>5, ConcatProperties
<1> QED
  BY <1>1, <1>8 DEF SumWords

(* What is still to do is never negative.                                  *)
LEMMA StillToDo ==
  ASSUME BenchConstants, Provisioned, EndInv
  PROVE  /\ frame \in Nat /\ frame <= FRAMES
         /\ hw_seq \in Nat /\ hw_seq <= FRAMES
         /\ stat.frames \in Nat /\ stat.frames <= FRAMES
         /\ HandedOn \in Nat /\ HandedOn <= FRAMES
         /\ accel_words \in Nat /\ accel_words <= SumWords
         /\ SumWords \in Nat /\ FRAMES \in Nat /\ RunSteps \in Nat
         /\ Rank \in 0 .. 6 /\ RunLeft \in Nat /\ StepsLeft \in Nat
<1>1. frame \in Nat /\ frame <= FRAMES /\ Submitted <= FRAMES /\ FRAMES \in Nat
  BY Provision DEF EndInv, BenchInv, PlaceOK, Looping, Submitted
<1>2. /\ ring_used \in Nat /\ stat.frames \in Nat /\ HandedOn \in Nat
      /\ stat.frames + ring_used <= FRAMES /\ HandedOn <= stat.frames
  BY <1>1, Numbers DEF EndInv, BenchInv, Accounted
<1>3. hw_seq \in Nat /\ hw_seq <= stat.frames + ring_used
  <2>1. hw_seq \in Nat /\ hw_seq = stat.frames + Gap(ring_tail, hw_cursor)
    BY DEF EndInv, BenchInv, MgrInv, MgrTypeOK, FramesConserved
  <2>2. /\ Gap(ring_tail, hw_cursor) \in Nat /\ hw_inflight \in Nat
        /\ ring_used = Gap(ring_tail, hw_cursor) + hw_inflight
    <3>1. ring_tail \in Slot /\ hw_cursor \in Slot
      BY DEF EndInv, BenchInv, MgrInv, RingInv, RingTypeOK
    <3>2. Gap(ring_tail, hw_cursor) \in Nat
      BY <3>1, GapNat
    <3>3. ring_used = Gap(ring_tail, hw_cursor) + hw_inflight
      BY DEF EndInv, BenchInv, MgrInv, RingInv, Agreement
    <3> QED
      BY <3>2, <3>3, Numbers DEF EndInv, BenchInv
  <2> QED
    BY <1>2, <2>1, <2>2
<1>4. SumWords \in Nat /\ accel_words \in Nat /\ accel_words <= SumWords
  BY MgrAssumption DEF EndInv, SumOK, SumWords
<1>5. Rank \in 0 .. 6
  BY DEF Rank
<1>6. RunLeft \in Nat /\ RunSteps \in Nat
  BY <1>1, <1>2, <1>3, <1>4, <1>5 DEF RunLeft, RunSteps
<1>7. StepsLeft \in Nat
  BY <1>6 DEF StepsLeft
<1> QED
  BY <1>1, <1>2, <1>3, <1>4, <1>5, <1>6, <1>7

(* The numbers RunLeft counts, in the actions that move the control only.  *)
LEMMA ControlLeft ==
  ASSUME BenchConstants, Provisioned, EndInv,
         MakeRoom \/ SubmitFrame \/ Reports \/ Flush \/ CallService \/ RetireEnds \/ DrainEnds
  PROVE  /\ UNCHANGED <<frame, hw_seq, stat, HandedOn, accel_words, accel_got>>
         /\ Rank' < Rank /\ accel_pc \notin {"init", "exit"} /\ accel_pc' \notin {"init", "exit"}
<1>1. CASE MakeRoom
  BY <1>1 DEF MakeRoom, Call, sumVars, mgrVars, ringVars, summaryVars, reportVars, HandedOn, Rank
<1>2. CASE SubmitFrame
  <2>1. ~Full
    BY <1>2, Provision, Numbers, RingAssumption
       DEF SubmitFrame, EndInv, BenchInv, Full, RING_MASK
  <2>2. /\ Submit(FrameJob) /\ accel_pc = "room" /\ UNCHANGED <<frame, accel_words, accel_got>>
        /\ accel_pc' \in {"tick", "reports"}
    BY <1>2, <2>1 DEF SubmitFrame, Call, Goto, sumVars
  <2>3. UNCHANGED <<hw_seq, stat, HandedOn>>
    BY <2>2 DEF Submit, summaryVars, HandedOn
  <2> QED
    BY <2>2, <2>3 DEF Rank
<1>3. CASE Reports
  BY <1>3 DEF Reports, DrainReports, Call, Goto, sumVars, mgrVars, summaryVars, HandedOn, Rank
<1>4. CASE Flush
  BY <1>4 DEF Flush, DrainReports, Call, Goto, sumVars, mgrVars, summaryVars, HandedOn, Rank
<1>5. CASE CallService
  BY <1>5 DEF CallService, Service, Goto, sumVars, summaryVars, HandedOn, Rank
<1>6. CASE RetireEnds
  <2>1. accel_pc = "retire" /\ accel_pc' = back /\ back \in {"room", "reports", "flush"}
    BY <1>6 DEF RetireEnds, Return, EndInv, BenchInv, PlaceOK
  <2> QED
    BY <1>6, <2>1 DEF RetireEnds, PopDoneExit, Return, sumVars, summaryVars, HandedOn, Rank
<1>7. CASE DrainEnds
  <2>1. accel_pc = "drain" /\ accel_pc' = back /\ back \in {"advance", "sum"}
    BY <1>7 DEF DrainEnds, Return, EndInv, BenchInv, PlaceOK
  <2> QED
    BY <1>7, <2>1 DEF DrainEnds, DrainExit, Return, sumVars, summaryVars, HandedOn, Rank
<1> QED
  BY <1>1, <1>2, <1>3, <1>4, <1>5, <1>6, <1>7

(* The actions that do a part of the work.                                 *)
LEMMA WorkLeft ==
  ASSUME BenchConstants, Provisioned, EndInv,
         Advance \/ CallTick \/ CallRetire \/ CallDrain \/ AccelSumWord
  PROVE  /\ UNCHANGED accel_got
         /\ accel_pc \notin {"init", "exit"} /\ accel_pc' \notin {"init", "exit"}
         /\ accel_words' \in 0 .. SumWords
         /\ RunLeft' \in Int /\ RunLeft' < RunLeft
<1>1. /\ frame \in Nat /\ frame <= FRAMES /\ hw_seq \in Nat /\ hw_seq <= FRAMES
      /\ stat.frames \in Nat /\ stat.frames <= FRAMES /\ HandedOn \in Nat /\ HandedOn <= FRAMES
      /\ accel_words \in Nat /\ accel_words <= SumWords /\ SumWords \in Nat /\ FRAMES \in Nat
  BY StillToDo
<1>2. CASE Advance
  <2>1. /\ frame' = frame + 1 /\ UNCHANGED <<hw_seq, stat, HandedOn, accel_words, accel_got>>
        /\ Rank = 1 /\ Rank' = 4 /\ accel_pc = "advance" /\ accel_pc' \in {"room", "flush"}
    BY <1>2 DEF Advance, mgrVars, summaryVars, HandedOn, Rank
  <2> QED
    BY <1>1, <2>1 DEF RunLeft
<1>3. CASE CallTick
  <2>1. /\ hw_seq' = hw_seq + 1 /\ UNCHANGED <<frame, stat, HandedOn, accel_words, accel_got>>
        /\ Rank = 0 /\ Rank' = 6 /\ accel_pc = "tick" /\ accel_pc' = "service"
    BY <1>3 DEF CallTick, Tick, Goto, sumVars, summaryVars, HandedOn, Rank
  <2> QED
    BY <1>1, <2>1 DEF RunLeft
<1>4. CASE CallRetire
  <2>1. /\ UNCHANGED <<frame, hw_seq, HandedOn, accel_words, accel_got, accel_pc>>
        /\ accel_pc = "retire" /\ stat'.frames = stat.frames + 1
    BY <1>4 DEF CallRetire, PopDone, Accumulated, Stay, sumVars, summaryVars, HandedOn
  <2>2. Rank' = 5 /\ Rank = 5
    BY <2>1 DEF Rank
  <2> QED
    BY <1>1, <2>1, <2>2 DEF RunLeft
<1>5. CASE CallDrain
  <2>1. /\ UNCHANGED <<frame, hw_seq, stat, accel_words, accel_got, accel_pc>>
        /\ accel_pc = "drain" /\ DrainOne
    BY <1>5 DEF CallDrain, DrainOne, Stay, sumVars
  <2>2. HandedOn' = HandedOn + 1
    BY <2>1, DrainNumbers DEF EndInv, BenchInv
  <2>3. Rank' = 2 /\ Rank = 2
    BY <2>1 DEF Rank
  <2> QED
    BY <1>1, <2>1, <2>2, <2>3 DEF RunLeft
<1>6. CASE AccelSumWord
  <2>1. /\ UNCHANGED <<frame, hw_seq, stat, HandedOn, accel_got, accel_pc>>
        /\ accel_pc = "sum" /\ accel_words' = accel_words + 1 /\ accel_words < Len(StateWords)
    BY <1>6 DEF AccelSumWord, mgrVars, summaryVars, HandedOn
  <2>2. Len(StateWords) = SumWords
    BY StateWordsLen, MgrAssumption
  <2>3. Rank' = 1 /\ Rank = 1
    BY <2>1 DEF Rank
  <2> QED
    BY <1>1, <2>1, <2>2, <2>3 DEF RunLeft
<1> QED
  BY <1>2, <1>3, <1>4, <1>5, <1>6

LEMMA ReturnsLeft ==
  ASSUME BenchConstants, Provisioned, EndInv, AccelReturns
  PROVE  StepsLeft' \in Int /\ StepsLeft' < StepsLeft /\ SumOK'
<1>1. /\ accel_pc = "sum" /\ accel_words' = accel_words /\ accel_got' = Append(accel_got, accel_chk)
      /\ accel_pc' = IF accel_got = <<>> THEN "init" ELSE "exit"
  BY DEF AccelReturns
<1>2. RunLeft \in Nat /\ RunLeft > 0 /\ RunSteps \in Nat
  <2>1. /\ frame \in Nat /\ frame <= FRAMES /\ hw_seq \in Nat /\ hw_seq <= FRAMES
        /\ stat.frames \in Nat /\ stat.frames <= FRAMES /\ HandedOn \in Nat /\ HandedOn <= FRAMES
        /\ accel_words \in Nat /\ accel_words <= SumWords /\ SumWords \in Nat /\ FRAMES \in Nat
        /\ RunSteps \in Nat
    BY StillToDo
  <2>2. Rank = 1
    BY <1>1 DEF Rank
  <2> QED
    BY <2>1, <2>2 DEF RunLeft
<1>3. CASE accel_got = <<>>
  <2>1. accel_got' # <<>> /\ accel_pc' = "init"
    BY <1>1, <1>3
  <2>2. StepsLeft = RunLeft + RunSteps + 1 /\ StepsLeft' = RunSteps + 1
    BY <1>1, <1>3, <2>1 DEF StepsLeft
  <2> QED
    BY <1>1, <1>2, <2>1, <2>2 DEF EndInv, SumOK
<1>4. CASE accel_got # <<>>
  <2>1. accel_pc' = "exit"
    BY <1>1, <1>4
  <2>2. StepsLeft = RunLeft /\ StepsLeft' = 0
    BY <1>1, <1>4, <2>1 DEF StepsLeft
  <2> QED
    BY <1>1, <1>2, <2>1, <2>2 DEF EndInv, SumOK
<1> QED
  BY <1>3, <1>4

LEMMA InitLeft ==
  ASSUME BenchConstants, Provisioned, EndInv, accel_init
  PROVE  StepsLeft' \in Int /\ StepsLeft' < StepsLeft /\ SumOK'
<1>1. /\ accel_pc = "init" /\ accel_got # <<>> /\ accel_got' = accel_got /\ accel_pc' = "room"
      /\ frame' = 0 /\ hw_seq' = 0 /\ stat' = NoStat /\ accel_words' = 0
      /\ level_count' = [l \in Level |-> 0]
  BY DEF accel_init, EndInv, SumOK
<1>2. stat'.frames = 0 /\ HandedOn' = 0 /\ Rank' = 4
  BY <1>1 DEF NoStat, HandedOn, Level, Rank
<1>3. SumWords \in Nat /\ FRAMES \in Nat
  BY StillToDo
<1>4. RunLeft' = RunSteps
  BY <1>1, <1>2, <1>3 DEF RunLeft, RunSteps
<1>5. StepsLeft = RunSteps + 1 /\ StepsLeft' = RunSteps /\ RunSteps \in Nat
  BY <1>1, <1>4, StillToDo DEF StepsLeft
<1> QED
  BY <1>1, <1>3, <1>5 DEF SumOK

LEMMA EndStep ==
  ASSUME BenchConstants, Provisioned, EndInv, BenchNext
  PROVE  EndInv' /\ StepsLeft' \in Int /\ StepsLeft' < StepsLeft
<1>1. BenchInv'
  BY BenchStep DEF EndInv
<1>2. CASE accel_init \/ AccelReturns
  BY <1>1, <1>2, InitLeft, ReturnsLeft DEF EndInv
<1>3. CASE ~(accel_init \/ AccelReturns)
  <2>1. /\ UNCHANGED accel_got
        /\ accel_pc \notin {"init", "exit"} /\ accel_pc' \notin {"init", "exit"}
        /\ accel_words' \in 0 .. SumWords /\ RunLeft' \in Int /\ RunLeft' < RunLeft
    <3>1. CASE Advance \/ CallTick \/ CallRetire \/ CallDrain \/ AccelSumWord
      BY <3>1, WorkLeft
    <3>2. CASE MakeRoom \/ SubmitFrame \/ Reports \/ Flush \/ CallService \/ RetireEnds \/ DrainEnds
      <4>1. /\ UNCHANGED <<frame, hw_seq, stat, HandedOn, accel_words, accel_got>>
            /\ Rank' < Rank /\ accel_pc \notin {"init", "exit"} /\ accel_pc' \notin {"init", "exit"}
        BY <3>2, ControlLeft
      <4>2. /\ frame \in Nat /\ hw_seq \in Nat /\ stat.frames \in Nat /\ HandedOn \in Nat
            /\ accel_words \in Nat /\ accel_words <= SumWords /\ SumWords \in Nat
            /\ FRAMES \in Nat /\ Rank \in 0 .. 6
        BY StillToDo
      <4>3. Rank' \in 0 .. 6
        BY DEF Rank
      <4> QED
        BY <4>1, <4>2, <4>3 DEF RunLeft
    <3> QED
      BY <1>3, <3>1, <3>2 DEF BenchNext
  <2>2. RunLeft \in Nat /\ RunSteps \in Nat
    BY StillToDo
  <2>3. EndInv'
    BY <1>1, <2>1 DEF EndInv, SumOK
  <2>4. CASE accel_got = <<>>
    <3>1. StepsLeft = RunLeft + RunSteps + 1 /\ StepsLeft' = RunLeft' + RunSteps + 1
      BY <2>1, <2>4 DEF StepsLeft, RunSteps, SumWords
    <3>2. \A m, n \in Int, k \in Nat : m < n => m + k + 1 \in Int /\ m + k + 1 < n + k + 1
      OBVIOUS
    <3>3. RunLeft' \in Int
      BY <2>1
    <3>4. RunLeft' < RunLeft
      BY <2>1
    <3>5. RunLeft \in Int
      BY <2>2
    <3>6. RunSteps \in Nat
      BY <2>2
    <3>7. /\ RunLeft' + RunSteps + 1 \in Int
          /\ RunLeft' + RunSteps + 1 < RunLeft + RunSteps + 1
      BY <3>2, <3>3, <3>4, <3>5, <3>6
    <3> QED
      BY <2>3, <3>1, <3>7
  <2>5. CASE accel_got # <<>>
    <3>1. StepsLeft = RunLeft /\ StepsLeft' = RunLeft'
      BY <2>1, <2>5 DEF StepsLeft
    <3> QED
      BY <2>1, <2>2, <2>3, <3>1
  <2> QED
    BY <2>3, <2>4, <2>5
<1> QED
  BY <1>2, <1>3

LEMMA EndStart ==
  ASSUME BenchConstants, Provisioned, BenchInit
  PROVE  EndInv /\ StepsLeft = 2 * RunSteps + 1 /\ RunSteps \in Nat
<1>1. BenchInv /\ NCHAN \in Nat /\ OUT_N \in Nat
  BY BenchStart, MgrAssumption
<1>2. /\ accel_words = 0 /\ accel_pc = "room" /\ accel_got = <<>> /\ frame = 0
      /\ hw_seq = 0 /\ stat = NoStat /\ level_count = [l \in Level |-> 0]
  BY DEF BenchInit, InitMgr
<1>3. EndInv
  BY <1>1, <1>2 DEF EndInv, SumOK, SumWords
<1>4. stat.frames = 0 /\ HandedOn = 0 /\ Rank = 4
  BY <1>2 DEF NoStat, HandedOn, Level, Rank
<1>5. RunLeft = RunSteps
  BY <1>2, <1>3, <1>4, StillToDo DEF RunLeft, RunSteps
<1>6. StepsLeft = 2 * RunSteps + 1 /\ RunSteps \in Nat
  <2>1. StepsLeft = RunLeft + RunSteps + 1
    BY <1>2 DEF StepsLeft
  <2>2. RunSteps \in Nat
    BY <1>3, StillToDo
  <2> QED
    BY <1>5, <2>1, <2>2
<1> QED
  BY <1>3, <1>6

LEMMA EndIdle ==
  ASSUME EndInv, UNCHANGED benchVars
  PROVE  EndInv' /\ StepsLeft' = StepsLeft
<1>1. BenchInv'
  BY IdleBench DEF EndInv
<1>2. UNCHANGED <<accel_pc, frame, hw_seq, stat, HandedOn, accel_words, accel_got>>
  BY DEF benchVars, mgrVars, summaryVars, HandedOn
<1>3. SumOK' /\ Rank' = Rank
  BY <1>2 DEF EndInv, SumOK, SumWords, Rank
<1>4. RunLeft' = RunLeft
  BY <1>2, <1>3 DEF RunLeft, SumWords
<1>5. StepsLeft' = StepsLeft
  BY <1>2, <1>4 DEF StepsLeft, RunSteps, SumWords
<1> QED
  BY <1>1, <1>3, <1>5 DEF EndInv

LEMMA EndInvariant ==
  ASSUME BenchConstants, Provisioned
  PROVE  BenchSpec => []EndInv
<1>1. BenchInit => EndInv
  BY EndStart
<1>2. EndInv /\ [BenchNext]_benchVars => EndInv'
  BY EndStep, EndIdle
<1> QED
  BY <1>1, <1>2, PTL DEF BenchSpec

-----------------------------------------------------------------------------
(* The wait loops end: every step of the program brings it nearer to its   *)
(* exit, and the two runs together take no more than 2 * RunSteps + 1      *)
(* steps, with RunSteps = 13 * FRAMES + 2 * NCHAN + OUT_N + 21.            *)
THEOREM BenchEnds ==
  ASSUME BenchConstants, Provisioned
  PROVE  BenchSpec => /\ [](StepsLeft \in 0 .. 2 * RunSteps + 1)
                      /\ [][StepsLeft' < StepsLeft]_benchVars
<1> DEFINE Inv == EndInv /\ StepsLeft <= 2 * RunSteps + 1
<1>1. BenchInit => Inv
  BY EndStart
<1>2. Inv /\ [BenchNext]_benchVars => Inv' /\ [StepsLeft' < StepsLeft]_benchVars
  <2> SUFFICES ASSUME Inv, [BenchNext]_benchVars
               PROVE  Inv' /\ [StepsLeft' < StepsLeft]_benchVars
    OBVIOUS
  <2>1. CASE BenchNext
    <3>1. EndInv' /\ StepsLeft' \in Int /\ StepsLeft' < StepsLeft
      BY <2>1, EndStep
    <3>2. StepsLeft \in Int /\ StepsLeft <= 2 * RunSteps + 1 /\ RunSteps \in Nat
      BY StillToDo
    <3>3. StepsLeft' <= 2 * RunSteps + 1
      BY <3>1, <3>2
    <3> QED
      BY <3>1, <3>3 DEF RunSteps, SumWords
  <2>2. CASE UNCHANGED benchVars
    BY <2>2, EndIdle DEF RunSteps, SumWords
  <2> QED
    BY <2>1, <2>2
<1>3. Inv => StepsLeft \in 0 .. 2 * RunSteps + 1
  BY StillToDo
<1> HIDE DEF Inv
<1> QED
  BY <1>1, <1>2, <1>3, PTL DEF BenchSpec

(* bench_run is never left in the middle: at every place the guard of one  *)
(* of its actions holds, the tick of an engine with nothing to do among    *)
(* them, which the program would not come back from.                       *)
THEOREM NeverStuck ==
  ASSUME BenchConstants, Provisioned
  PROVE  BenchSpec => [](accel_pc # "exit" => CanGoOn)
<1>1. EndInv => (accel_pc # "exit" => CanGoOn)
  <2> SUFFICES ASSUME EndInv, accel_pc # "exit" PROVE CanGoOn
    OBVIOUS
  <2>1. /\ accel_pc \in {"room", "reports", "advance", "flush", "tick", "service", "retire",
                          "drain", "sum", "init"}
        /\ mode = IF accel_pc \in {"retire", "drain"} THEN accel_pc ELSE "task"
    BY DEF EndInv, BenchInv, PlaceOK
  <2>2. accel_pc = "tick" => hw_inflight # 0
    BY Numbers DEF EndInv, BenchInv, Served
  <2>3. accel_words \in Nat /\ accel_words <= SumWords /\ SumWords \in Nat
    BY StillToDo
  <2>4. Len(StateWords) = SumWords
    BY StateWordsLen, MgrAssumption
  <2>5. accel_words < Len(StateWords) \/ accel_words = Len(StateWords)
    BY <2>3, <2>4
  <2> QED
    BY <2>1, <2>2, <2>5 DEF CanGoOn
<1>2. BenchSpec => []EndInv
  BY EndInvariant
<1> QED
  BY <1>1, <1>2, PTL

-----------------------------------------------------------------------------
(* Two runs, in two memories.                                              *)

(* The constant operators are the same in both.                            *)
LEMMA SameSets ==
  /\ Second!Slot = Slot /\ Second!OutSlot = OutSlot /\ Second!AppChannel = AppChannel
  /\ Second!Level = Level /\ Second!RING_MASK = RING_MASK
  /\ Second!NotDone = NotDone /\ Second!FreshDesc = FreshDesc /\ Second!NoStat = NoStat
  /\ Second!EmptyReport = EmptyReport /\ Second!AVG_RANGE = AVG_RANGE
BY DEF Slot, Second!Slot, OutSlot, Second!OutSlot, AppChannel, Second!AppChannel, Level,
       Second!Level, RING_MASK, Second!RING_MASK, NotDone, Second!NotDone, FreshDesc,
       Second!FreshDesc, NoStat, Second!NoStat, EmptyReport, Second!EmptyReport,
       AVG_RANGE, Second!AVG_RANGE

LEMMA SameSteps ==
  /\ \A s : Second!Succ(s) = Succ(s)
  /\ \A s : Second!OutSucc(s) = OutSucc(s)
  /\ \A n : Second!FrameBytes(n) = FrameBytes(n)
  /\ \A n : Second!Done(n) = Done(n)
  /\ \A n : Second!Word(n) = Word(n)
  /\ \A c, w : Second!Mix(c, w) = Mix(c, w)
BY DEF Succ, Second!Succ, OutSucc, Second!OutSucc, FrameBytes, Second!FrameBytes, Done,
       Second!Done, Word, Second!Word, Mix, Second!Mix

LEMMA SameArithmetic ==
  /\ \A a, b : Second!Min2(a, b) = Min2(a, b) /\ Second!Max2(a, b) = Max2(a, b)
  /\ \A mv : Second!LevelOf(mv) = LevelOf(mv)
  /\ \A s : Second!Average(s) = Average(s)
  /\ \A c, l, q, a : Second!Report(c, l, q, a) = Report(c, l, q, a)
  /\ \A r : Second!ReportWord(r) = ReportWord(r)
BY SameSets DEF Min2, Second!Min2, Max2, Second!Max2, LevelOf, Second!LevelOf, Average,
       Second!Average, Report, Second!Report, ReportWord, Second!ReportWord

LEMMA SameBlocks ==
  \A b : /\ Second!BlockSum(b) = BlockSum(b)
         /\ Second!BlockMax(b) = BlockMax(b) /\ Second!BlockMin(b) = BlockMin(b)
<1> SUFFICES ASSUME NEW b
             PROVE  /\ Second!BlockSum(b) = BlockSum(b)
                    /\ Second!BlockMax(b) = BlockMax(b) /\ Second!BlockMin(b) = BlockMin(b)
  OBVIOUS
<1>1. Second!Block(b) = Block(b)
  BY DEF Block, Second!Block
<1>2. Second!BlockSum(b) = BlockSum(b)
  BY Zenon DEF BlockSum, Second!BlockSum, SumFunction, Second!SumFunction, SumFunctionOnSet,
     Second!SumFunctionOnSet, FoldFunctionOnSet, Second!FoldFunctionOnSet, MapThenFoldSet,
     Second!MapThenFoldSet, Block, Second!Block
<1>3. Second!BlockMax(b) = BlockMax(b)
  BY <1>1 DEF BlockMax, Second!BlockMax, Max, Second!Max, Range, Second!Range
<1>4. Second!BlockMin(b) = BlockMin(b)
  BY <1>1 DEF BlockMin, Second!BlockMin, Min, Second!Min, Range, Second!Range
<1> QED
  BY <1>2, <1>3, <1>4

-----------------------------------------------------------------------------
(* What the functions compute from the common memory.                      *)
LEMMA SameViews ==
  ASSUME SameMgr
  PROVE  /\ Second!ring_used = ring_used
         /\ Second!Full = Full
         /\ Second!CanRetire = CanRetire
         /\ \A b : Second!PeakMv(b) = PeakMv(b)
         /\ \A b, bytes : Second!Accumulated(b, bytes) = Accumulated(b, bytes)
<1>1. Second!ring_used = ring_used
  BY DEF SameMgr, ring_used, Second!ring_used
<1>2. Second!Full = Full
  BY <1>1, SameSets DEF Full, Second!Full
<1>3. Second!CanRetire = CanRetire
  BY <1>1 DEF SameMgr, CanRetire, Second!CanRetire
<1>4. \A b : Second!PeakMv(b) = PeakMv(b)
  BY SameBlocks DEF SameMgr, PeakMv, Second!PeakMv
<1>5. \A b, bytes : Second!Accumulated(b, bytes) = Accumulated(b, bytes)
  BY <1>4, SameBlocks, SameArithmetic DEF SameMgr, Accumulated, Second!Accumulated
<1> QED
  BY <1>1, <1>2, <1>3, <1>4, <1>5

(* The functions of the driver keep the memory common.                     *)
LEMMA SameSubmit ==
  ASSUME NEW j, SameMgr, Submit(j), Second!Submit(j)
  PROVE  SameMgr'
<1>1. Succ(ring_head) \in Slot
  BY RingAssumption DEF SameMgr, Succ, Slot
<1> QED
  BY <1>1, SameSets, SameSteps DEF SameMgr, Submit, Second!Submit, submit, Second!submit,
     reportVars, Second!reportVars, summaryVars, Second!summaryVars

LEMMA SameSubmitFull ==
  ASSUME SameMgr, SubmitFull, Second!SubmitFull
  PROVE  SameMgr'
BY DEF SameMgr, SubmitFull, Second!SubmitFull, ringVars, Second!ringVars, reportVars,
   Second!reportVars, summaryVars, Second!summaryVars

LEMMA SameTick ==
  ASSUME SameMgr, Tick, Second!Tick
  PROVE  SameMgr'
BY SameSteps DEF SameMgr, Tick, Second!Tick, accel_tick, Second!accel_tick, reportVars,
   Second!reportVars, summaryVars, Second!summaryVars

LEMMA SameService ==
  ASSUME SameMgr, Service, Second!Service
  PROVE  SameMgr'
<1>1. irq_2' = FALSE /\ irq' = FALSE
  BY DEF Service, Second!Service, service_engine, Second!service_engine
<1>2. irq_2' = irq'
  BY <1>1, Zenon
<1> QED
  BY <1>2 DEF SameMgr, Service, Second!Service, service_engine, Second!service_engine,
     reportVars, Second!reportVars, summaryVars, Second!summaryVars

LEMMA SamePush ==
  ASSUME NEW rep, SameMgr, PushReport(rep), Second!PushReport(rep)
  PROVE  /\ out_ring_2' = out_ring' /\ out_head_2' = out_head'
         /\ out_tail_2' = out_tail' /\ out_dropped_2' = out_dropped'
<1>1. out_ring_2' = out_ring' /\ out_head_2' = out_head'
  BY SameSteps DEF SameMgr, PushReport, Second!PushReport
<1>2. CASE OutSucc(out_head) = out_tail
  BY <1>1, <1>2, SameSteps DEF SameMgr, PushReport, Second!PushReport
<1>3. CASE OutSucc(out_head) # out_tail
  BY <1>1, <1>3, SameSteps DEF SameMgr, PushReport, Second!PushReport
<1> QED
  BY <1>2, <1>3

LEMMA SamePopDone ==
  ASSUME SameMgr, PopDone, Second!PopDone
  PROVE  SameMgr'
<1> DEFINE d == ring[ring_tail]
           b == res_buf[ring_tail]
           rep == Report(d.chan, LevelOf(PeakMv(b)), d.seq, Average(stat'))
<1>1. stat_2' = stat'
  BY SameViews DEF SameMgr, PopDone, Second!PopDone
<1>2. PushReport(rep)
  BY DEF PopDone
<1>3. Second!PushReport(rep)
  BY <1>1, SameViews, SameArithmetic DEF SameMgr, PopDone, Second!PopDone
<1>4. cal_div_2' = cal_div'
  BY <1>1, SameArithmetic DEF SameMgr, PopDone, Second!PopDone
<1>5. /\ ring_2' = ring' /\ res_buf_2' = res_buf' /\ ring_head_2' = ring_head'
      /\ ring_tail_2' = ring_tail' /\ hw_cursor_2' = hw_cursor'
      /\ hw_inflight_2' = hw_inflight' /\ hw_res_2' = hw_res' /\ irq_2' = irq'
      /\ mode_2' = mode'
  BY SameSets, SameSteps DEF SameMgr, PopDone, Second!PopDone, pop_done, Second!pop_done
<1>8. ring_head' \in Slot /\ ring_tail' \in Slot
  BY RingAssumption DEF SameMgr, PopDone, pop_done, Succ, Slot
<1>6. /\ hw_seq_2' = hw_seq' /\ level_count_2' = level_count' /\ chan_mag_2' = chan_mag'
      /\ chan_events_2' = chan_events'
  BY DEF SameMgr, PopDone, Second!PopDone, summaryVars, Second!summaryVars
<1> HIDE DEF rep
<1>7. /\ out_ring_2' = out_ring' /\ out_head_2' = out_head'
      /\ out_tail_2' = out_tail' /\ out_dropped_2' = out_dropped'
  BY <1>2, <1>3, SamePush
<1> QED
  BY <1>1, <1>4, <1>5, <1>6, <1>7, <1>8 DEF SameMgr

LEMMA SamePopDoneExit ==
  ASSUME SameMgr, PopDoneExit, Second!PopDoneExit
  PROVE  SameMgr'
BY DEF SameMgr, PopDoneExit, Second!PopDoneExit, pop_done_exit, Second!pop_done_exit,
   reportVars, Second!reportVars, summaryVars, Second!summaryVars

LEMMA SameDrainReports ==
  ASSUME SameMgr, DrainReports, Second!DrainReports
  PROVE  SameMgr'
BY DEF SameMgr, DrainReports, Second!DrainReports, reportVars, Second!reportVars,
   summaryVars, Second!summaryVars

LEMMA SameDrainOne ==
  ASSUME SameMgr, DrainOne, Second!DrainOne
  PROVE  SameMgr'
BY SameSteps DEF SameMgr, DrainOne, Second!DrainOne, ringVars, Second!ringVars

LEMMA SameDrainExit ==
  ASSUME SameMgr, DrainExit, Second!DrainExit
  PROVE  SameMgr'
BY DEF SameMgr, DrainExit, Second!DrainExit, reportVars, Second!reportVars, summaryVars,
   Second!summaryVars

LEMMA SameStateWords ==
  ASSUME SameMgr
  PROVE  Second!StateWords = StateWords
<1>1. [i \in 1 .. 4 |-> Second!Word(level_count_2[i - 1])] = [i \in 1 .. 4 |-> Word(level_count[i - 1])]
  BY SameSteps DEF SameMgr
<1>2. [i \in 1 .. OUT_N |-> Second!ReportWord(out_ring_2[i - 1])]
        = [i \in 1 .. OUT_N |-> ReportWord(out_ring[i - 1])]
  BY SameArithmetic DEF SameMgr
<1>3. [i \in 1 .. 2 * NCHAN |->
         LET c == (i - 1) \div 2
         IN IF i % 2 = 1 THEN Second!Word(chan_mag_2[c]) ELSE Second!Word(chan_events_2[c])]
        = [i \in 1 .. 2 * NCHAN |->
             LET c == (i - 1) \div 2
             IN IF i % 2 = 1 THEN Word(chan_mag[c]) ELSE Word(chan_events[c])]
  BY SameSteps DEF SameMgr
<1> QED
  BY <1>1, <1>2, <1>3, SameSteps DEF SameMgr, StateWords, Second!StateWords

-----------------------------------------------------------------------------
(* bench_run is sequential: where it is says which statement comes next.   *)
LEMMA NextHere ==
  ASSUME BenchNext
  PROVE  /\ accel_pc = "room" => MakeRoom \/ SubmitFrame
         /\ accel_pc = "reports" => Reports
         /\ accel_pc = "advance" => Advance
         /\ accel_pc = "flush" => Flush
         /\ accel_pc = "tick" => CallTick
         /\ accel_pc = "service" => CallService
         /\ accel_pc = "retire" => CallRetire \/ RetireEnds
         /\ accel_pc = "drain" => CallDrain \/ DrainEnds
         /\ accel_pc = "sum" => AccelSumWord \/ AccelReturns
         /\ accel_pc = "init" => accel_init
         /\ accel_pc # "exit"
BY DEF BenchNext, MakeRoom, SubmitFrame, Reports, Advance, Flush, CallTick, CallService,
   CallRetire, RetireEnds, CallDrain, DrainEnds, AccelSumWord, AccelReturns, accel_init

LEMMA NextThere ==
  ASSUME Second!BenchNext
  PROVE  /\ accel_pc_2 = "room" => Second!MakeRoom \/ Second!SubmitFrame
         /\ accel_pc_2 = "reports" => Second!Reports
         /\ accel_pc_2 = "advance" => Second!Advance
         /\ accel_pc_2 = "flush" => Second!Flush
         /\ accel_pc_2 = "tick" => Second!CallTick
         /\ accel_pc_2 = "service" => Second!CallService
         /\ accel_pc_2 = "retire" => Second!CallRetire \/ Second!RetireEnds
         /\ accel_pc_2 = "drain" => Second!CallDrain \/ Second!DrainEnds
         /\ accel_pc_2 = "sum" => Second!AccelSumWord \/ Second!AccelReturns
         /\ accel_pc_2 = "init" => Second!accel_init
         /\ accel_pc_2 # "exit"
BY DEF Second!BenchNext, Second!MakeRoom, Second!SubmitFrame, Second!Reports,
   Second!Advance, Second!Flush, Second!CallTick, Second!CallService, Second!CallRetire,
   Second!RetireEnds, Second!CallDrain, Second!DrainEnds, Second!AccelSumWord,
   Second!AccelReturns, Second!accel_init

(* A step of the program beside the memory: the two go to the same place.  *)
LEMMA SameGoto ==
  ASSUME InStep, SameMgr', NEW place \in Places, NEW after \in Places,
         \/ place \notin Calls /\ Goto(place) /\ Second!Goto(place)
         \/ Call(place, after) /\ Second!Call(place, after)
         \/ accel_pc \in Calls /\ Goto(place) /\ Second!Goto(place)
         \/ accel_pc \in Calls /\ Return /\ Second!Return
         \/ Stay /\ Second!Stay
  PROVE  InStep'
BY DEF InStep, SameMemory, Calls, Places, Goto, Second!Goto, Call, Second!Call, Return,
   Second!Return, Stay, Second!Stay, sumVars, Second!sumVars

LEMMA SameIdle ==
  ASSUME SameMgr, UNCHANGED mgrVars, UNCHANGED Second!mgrVars
  PROVE  SameMgr'
BY DEF SameMgr, mgrVars, Second!mgrVars, ringVars, Second!ringVars, reportVars,
   Second!reportVars, summaryVars, Second!summaryVars

(* One step of the two runs, by the place both are at.                     *)
LEMMA TwoRooms ==
  ASSUME BenchConstants, InStep, accel_pc = "room", BenchNext, Second!BenchNext
  PROVE  InStep'
<1>1. SameMgr /\ accel_pc_2 = "room" /\ frame_2 = frame
  BY DEF InStep, SameMemory
<1>2. Second!ring_used = ring_used /\ Second!Full = Full /\ Second!FrameJob = FrameJob
  BY <1>1, SameViews DEF FrameJob, Second!FrameJob
<1>8. ring_used \in Int /\ QUEUE_DEPTH \in Int
  BY <1>1, RingAssumption DEF SameMgr, BenchConstants, ring_used, Slot
<1>3. (MakeRoom \/ SubmitFrame) /\ (Second!MakeRoom \/ Second!SubmitFrame)
  BY <1>1, NextHere, NextThere
<1>4. {"room", "advance", "reports", "tick"} \subseteq Places
      /\ "tick" \in Calls /\ "reports" \notin Calls
  BY DEF Places, Calls
<1>5. CASE ring_used >= QUEUE_DEPTH
  <2>1. /\ Call("tick", "room") /\ UNCHANGED mgrVars
        /\ Second!Call("tick", "room") /\ UNCHANGED Second!mgrVars
    BY <1>2, <1>3, <1>5, <1>8 DEF MakeRoom, SubmitFrame, Second!MakeRoom, Second!SubmitFrame
  <2> QED
    BY <2>1, <1>1, <1>4, SameIdle, SameGoto
<1>6. CASE ~(ring_used >= QUEUE_DEPTH) /\ Full
  <2>1. /\ SubmitFull /\ Call("tick", "advance")
        /\ Second!SubmitFull /\ Second!Call("tick", "advance")
    BY <1>2, <1>3, <1>6, <1>8 DEF MakeRoom, SubmitFrame, Second!MakeRoom, Second!SubmitFrame
  <2> QED
    BY <2>1, <1>1, <1>4, SameSubmitFull, SameGoto
<1>7. CASE ~(ring_used >= QUEUE_DEPTH) /\ ~Full
  <2>1. /\ Submit(FrameJob) /\ Second!Submit(FrameJob)
        /\ \/ Call("tick", "reports") /\ Second!Call("tick", "reports")
           \/ Goto("reports") /\ Second!Goto("reports")
    BY <1>1, <1>2, <1>3, <1>7, <1>8 DEF MakeRoom, SubmitFrame, Second!MakeRoom, Second!SubmitFrame
  <2>2. SameMgr'
    BY <2>1, <1>1, SameSubmit
  <2> QED
    BY <2>1, <2>2, <1>4, SameGoto
<1> QED
  BY <1>5, <1>6, <1>7

LEMMA TwoLoops ==
  ASSUME InStep, accel_pc \in {"reports", "advance", "flush"}, BenchNext, Second!BenchNext
  PROVE  InStep'
<1>1. SameMgr /\ accel_pc_2 = accel_pc /\ frame_2 = frame
  BY DEF InStep, SameMemory
<1>2. Second!ring_used = ring_used
  BY <1>1, SameViews
<1>3. {"room", "advance", "flush", "sum", "tick", "drain"} \subseteq Places
      /\ {"tick", "drain"} \subseteq Calls /\ "advance" \notin Calls /\ "sum" \notin Calls
  BY DEF Places, Calls
<1>4. CASE accel_pc = "reports"
  <2>1. Reports /\ Second!Reports
    BY <1>1, <1>4, NextHere, NextThere
  <2>2. \/ /\ DrainReports /\ Call("drain", "advance")
           /\ Second!DrainReports /\ Second!Call("drain", "advance")
        \/ /\ Goto("advance") /\ UNCHANGED mgrVars
           /\ Second!Goto("advance") /\ UNCHANGED Second!mgrVars
    BY <1>1, <2>1 DEF Reports, Second!Reports
  <2>3. SameMgr'
    BY <1>1, <2>2, SameDrainReports, SameIdle
  <2> QED
    BY <1>3, <2>2, <2>3, SameGoto
<1>5. CASE accel_pc = "advance"
  <2>1. Advance /\ Second!Advance
    BY <1>1, <1>5, NextHere, NextThere
  <2>2. SameMgr'
    BY <1>1, <2>1, SameIdle DEF Advance, Second!Advance
  <2> QED
    BY <1>1, <1>3, <2>1, <2>2 DEF Advance, Second!Advance, InStep, SameMemory, Calls
<1>6. CASE accel_pc = "flush"
  <2>1. Flush /\ Second!Flush
    BY <1>1, <1>6, NextHere, NextThere
  <2>2. \/ /\ Call("tick", "flush") /\ UNCHANGED mgrVars
           /\ Second!Call("tick", "flush") /\ UNCHANGED Second!mgrVars
        \/ /\ DrainReports /\ Call("drain", "sum")
           /\ Second!DrainReports /\ Second!Call("drain", "sum")
    BY <1>2, <2>1 DEF Flush, Second!Flush
  <2>3. SameMgr'
    BY <1>1, <2>2, SameDrainReports, SameIdle
  <2> QED
    BY <1>3, <2>2, <2>3, SameGoto
<1> QED
  BY <1>4, <1>5, <1>6

LEMMA TwoCalls ==
  ASSUME InStep, accel_pc \in Calls, BenchNext, Second!BenchNext
  PROVE  InStep'
<1>1. SameMgr /\ accel_pc_2 = accel_pc
  BY DEF InStep, SameMemory
<1>2. Second!CanRetire = CanRetire
  BY <1>1, SameViews
<1>3. "service" \in Places /\ "retire" \in Places
  BY DEF Places, Calls
<1>4. CASE accel_pc = "tick"
  <2>1. Tick /\ Goto("service") /\ Second!Tick /\ Second!Goto("service")
    BY <1>1, <1>4, NextHere, NextThere DEF CallTick, Second!CallTick
  <2> QED
    BY <1>1, <1>3, <2>1, SameTick, SameGoto
<1>5. CASE accel_pc = "service"
  <2>1. Service /\ Goto("retire") /\ Second!Service /\ Second!Goto("retire")
    BY <1>1, <1>5, NextHere, NextThere DEF CallService, Second!CallService
  <2> QED
    BY <1>1, <1>3, <2>1, SameService, SameGoto
<1>6. CASE accel_pc = "retire"
  <2>1. \/ PopDone /\ Stay /\ Second!PopDone /\ Second!Stay
        \/ PopDoneExit /\ Return /\ Second!PopDoneExit /\ Second!Return
    BY <1>1, <1>2, <1>6, NextHere, NextThere DEF CallRetire, RetireEnds, Second!CallRetire,
       Second!RetireEnds, PopDone, PopDoneExit, Second!PopDone, Second!PopDoneExit,
       pop_done, pop_done_exit, Second!pop_done, Second!pop_done_exit
  <2> QED
    BY <1>1, <1>3, <2>1, SamePopDone, SamePopDoneExit, SameGoto
<1>7. CASE accel_pc = "drain"
  <2>1. out_tail_2 = out_tail /\ out_head_2 = out_head
    BY <1>1 DEF SameMgr
  <2>2. \/ DrainOne /\ Stay /\ Second!DrainOne /\ Second!Stay
        \/ DrainExit /\ Return /\ Second!DrainExit /\ Second!Return
    BY <1>1, <1>7, <2>1, NextHere, NextThere DEF CallDrain, DrainEnds, Second!CallDrain,
       Second!DrainEnds, DrainOne, DrainExit, Second!DrainOne, Second!DrainExit
  <2> QED
    BY <1>1, <1>3, <2>2, SameDrainOne, SameDrainExit, SameGoto
<1> QED
  BY <1>4, <1>5, <1>6, <1>7 DEF Calls

(* The checksums: the same words from the same beginning.                  *)
LEMMA TwoSums ==
  ASSUME InStep, accel_pc = "sum", BenchNext, Second!BenchNext
  PROVE  TwiceInv'
<1>1. SameMgr /\ accel_pc_2 = accel_pc /\ accel_words_2 = accel_words
  BY DEF InStep, SameMemory
<1>2. Second!StateWords = StateWords
  BY <1>1, SameStateWords
<1>3. CASE accel_words < Len(StateWords)
  <2>1. AccelSumWord /\ Second!AccelSumWord
    BY <1>1, <1>2, <1>3, NextHere, NextThere DEF AccelReturns, Second!AccelReturns
  <2>2. SameMgr'
    BY <1>1, <2>1, SameIdle DEF AccelSumWord, Second!AccelSumWord
  <2>3. accel_chk_2' = accel_chk'
    BY <1>1, <1>2, <2>1, SameSteps DEF AccelSumWord, Second!AccelSumWord, InStep, SameMgr
  <2>4. InStep'
    BY <1>1, <2>1, <2>2, <2>3 DEF AccelSumWord, Second!AccelSumWord, InStep, SameMemory
  <2> QED
    BY <2>4 DEF TwiceInv
<1>4. CASE ~(accel_words < Len(StateWords))
  <2>1. AccelReturns /\ Second!AccelReturns
    BY <1>1, <1>2, <1>4, NextHere, NextThere DEF AccelSumWord, Second!AccelSumWord
  <2>2. accel_words # 0
    <3>1. Len(StateWords) = SumWords /\ SumWords \in Nat \ {0}
      BY StateWordsLen, MgrAssumption DEF SumWords
    <3> QED
      BY <2>1, <3>1 DEF AccelReturns
  <2>3. accel_chk_2 = accel_chk /\ accel_got = <<>>
    BY <2>2 DEF InStep
  <2>4. PICK chk : accel_got_2 = <<chk>>
    BY DEF InStep
  <2>5. accel_got' = <<accel_chk>> /\ accel_pc' = "init"
    BY <2>1, <2>3 DEF AccelReturns
  <2>6. accel_got_2' = Append(<<chk>>, accel_chk) /\ accel_pc_2' = "exit"
    <3>1. <<chk>> # <<>>
      OBVIOUS
    <3> QED
      BY <2>1, <2>3, <2>4, <3>1 DEF Second!AccelReturns
  <2>7. accel_got'[1] = accel_chk
    BY <2>5
  <2>8. accel_got_2'[2] = accel_chk
    <3>1. <<chk>> \in Seq({chk, accel_chk}) /\ Len(<<chk>>) = 1
      OBVIOUS
    <3>2. Append(<<chk>>, accel_chk)[2] = accel_chk
      BY <3>1
    <3> QED
      BY <2>6, <3>2
  <2> QED
    BY <2>5, <2>6, <2>7, <2>8 DEF TwiceInv
<1> QED
  BY <1>3, <1>4

LEMMA TwiceStep ==
  ASSUME BenchConstants, TwiceInv, [TwiceNext]_twiceVars
  PROVE  TwiceInv'
<1>1. CASE UNCHANGED twiceVars
  BY <1>1 DEF TwiceInv, TwiceInit, InStep, SameMemory, SameMgr, twiceVars, benchVars, mgrVars,
     ringVars, reportVars, summaryVars, Second!benchVars, Second!mgrVars, Second!ringVars,
     Second!reportVars, Second!summaryVars, BenchInit, InitMgr, InitRing
<1>2. CASE Second!accel_init /\ UNCHANGED benchVars
  <2>1. TwiceInit
    BY <1>2 DEF TwiceInv, InStep, SameMemory, Places, Calls, Second!accel_init
  <2>4. irq_2' = irq'
    <3>1. irq = FALSE /\ irq' = irq /\ irq_2' = FALSE
      BY <1>2, <2>1 DEF TwiceInit, BenchInit, InitMgr, InitRing, Second!accel_init, benchVars,
         mgrVars, ringVars
    <3> QED
      BY <3>1, Zenon
  <2>5. 0 \in Slot
    BY RingAssumption DEF Slot
  <2>2. SameMgr'
    BY <1>2, <2>1, <2>4, <2>5, SameSets DEF TwiceInit, BenchInit, InitMgr, InitRing, SameMgr,
       Second!accel_init, benchVars, mgrVars, ringVars, reportVars, summaryVars
  <2>3. InStep'
    BY <1>2, <2>1, <2>2 DEF TwiceInit, BenchInit, InStep, SameMemory, Places, Calls,
       Second!accel_init, benchVars
  <2> QED
    BY <2>3 DEF TwiceInv
<1>3. CASE accel_pc_2 # "init" /\ BenchNext /\ Second!BenchNext
  <2>1. InStep
    BY <1>3, NextThere DEF TwiceInv, TwiceInit
  <2>2. CASE accel_pc = "room"
    BY <1>3, <2>1, <2>2, TwoRooms DEF TwiceInv
  <2>3. CASE accel_pc \in {"reports", "advance", "flush"}
    BY <1>3, <2>1, <2>3, TwoLoops DEF TwiceInv
  <2>4. CASE accel_pc \in Calls
    BY <1>3, <2>1, <2>4, TwoCalls DEF TwiceInv
  <2>5. CASE accel_pc = "sum"
    BY <1>3, <2>1, <2>5, TwoSums
  <2> QED
    BY <2>1, <2>2, <2>3, <2>4, <2>5 DEF InStep, Places
<1> QED
  BY <1>1, <1>2, <1>3 DEF TwiceNext

(* bench_init clears everything that bench_run reads: a run begun after    *)
(* another one, whatever it left in the memory, goes through the same      *)
(* steps as the first one and returns the same checksum.  host_test.c      *)
(* stops with status 2 otherwise (host_test.c:37).                          *)
THEOREM RunsAlike ==
  ASSUME BenchConstants
  PROVE  TwiceSpec => []SameChecksum
<1>1. TwiceInit => TwiceInv
  BY DEF TwiceInv
<1>2. TwiceInv /\ [TwiceNext]_twiceVars => TwiceInv'
  BY TwiceStep
<1>3. TwiceInv => SameChecksum
  BY DEF TwiceInv, SameChecksum, TwiceInit, BenchInit, InStep, Places, Calls
<1> QED
  BY <1>1, <1>2, <1>3, PTL DEF TwiceSpec

(* The theorem is not about two runs one of which has come to a halt: to   *)
(* the end both can take the step that the other one takes.                *)
THEOREM NeitherWaits ==
  ASSUME BenchConstants, Provisioned
  PROVE  TwiceSpec => []BothGoOn
<1>1. TwiceInit => BenchInit /\ TwiceInv
  BY DEF TwiceInit, TwiceInv
<1>2. [TwiceNext]_twiceVars => [BenchNext]_benchVars
  BY DEF TwiceNext, twiceVars
<1>3. TwiceInv /\ [TwiceNext]_twiceVars => TwiceInv'
  BY TwiceStep
<1>4. TwiceInv /\ (accel_pc # "exit" => CanGoOn) => BothGoOn
  <2> SUFFICES ASSUME TwiceInv, accel_pc # "exit" => CanGoOn, accel_pc_2 # "exit"
               PROVE  CanGoOn /\ Second!CanGoOn
    BY DEF BothGoOn
  <2>1. CASE TwiceInit
    BY <2>1 DEF TwiceInit, BenchInit, Second!CanGoOn
  <2>2. CASE InStep
    <3>1. accel_pc # "exit" /\ SameMemory /\ SameMgr
      BY <2>2 DEF InStep, SameMemory, Places, Calls
    <3>2. Second!ring_used = ring_used /\ Second!StateWords = StateWords
      BY <3>1, SameViews, SameStateWords
    <3> QED
      BY <3>1, <3>2 DEF SameMemory, SameMgr, CanGoOn, Second!CanGoOn
  <2> QED
    BY <2>1, <2>2 DEF TwiceInv
<1> QED
  BY <1>1, <1>2, <1>3, <1>4, NeverStuck, PTL DEF TwiceSpec, BenchSpec
=============================================================================
