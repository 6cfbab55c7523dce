------------------------------ MODULE AccelMgr ------------------------------
(***************************************************************************)
(* The accelerator manager of benchmarks/custom/accelmgr/accelmgr.c: the   *)
(* descriptor ring of AccelRing, the statistics the core keeps when it     *)
(* retires a descriptor, and the report queue between it and the           *)
(* application layer, which overwrites its oldest report when it is full.  *)
(***************************************************************************)
EXTENDS AccelRing, Functions, FiniteSetsExt

CONSTANTS
  RES_PER_DESC,  \* results in a block
  result_tab,    \* the engine's results, a sequence of NBlocks blocks
  OUT_N,         \* slots of the report queue (a power of two)
  NCHAN,         \* channels of the application layer (a power of two)
  RecalMask,     \* recalibrate when (stat_frames & RecalMask) = 0: 0x1F
  MaxFrames,     \* bound: frames accepted in a run
  MaxFull        \* bound: refused submissions counted

Result == 0 .. 65535   \* uint16_t

ASSUME MgrAssumption ==
  /\ RES_PER_DESC \in Nat \ {0}
  /\ result_tab \in [1 .. NBlocks * RES_PER_DESC -> Result]
  /\ OUT_N \in Nat /\ OUT_N >= 2
  /\ NCHAN \in Nat \ {0}
  /\ RecalMask \in Nat
  /\ MaxFrames \in Nat /\ MaxFull \in Nat

OutSlot == 0 .. OUT_N - 1
AppChannel == 0 .. NCHAN - 1
Level   == 0 .. 3

VARIABLES
  stat,         \* stat_frames, _bytes, _results, _sum, _min, _max, _over, _full, _acc_mv
  cal_div,      \* the calibration divisor
  hw_seq,       \* descriptors executed
  out_ring, out_head, out_tail, out_dropped,
  level_count, chan_mag, chan_events

reportVars  == <<out_ring, out_head, out_tail, out_dropped>>
summaryVars == <<level_count, chan_mag, chan_events>>
mgrVars == <<ringVars, stat, cal_div, hw_seq, reportVars, summaryVars>>

NoStat == [frames |-> 0, bytes |-> 0, results |-> 0, sum |-> 0, min |-> 65535,
           max |-> 0, over |-> 0, full |-> 0, acc_mv |-> 0]

EmptyReport == [chan |-> 0, level |-> 0, seq |-> 0, avg |-> 0]

InitMgr ==
  /\ InitRing
  /\ stat = NoStat
  /\ cal_div = 4096
  /\ hw_seq = 0
  /\ out_ring = [s \in OutSlot |-> EmptyReport]
  /\ out_head = 0 /\ out_tail = 0 /\ out_dropped = 0
  /\ level_count = [l \in Level |-> 0]
  /\ chan_mag = [c \in AppChannel |-> 0] /\ chan_events = [c \in AppChannel |-> 0]

-----------------------------------------------------------------------------
(* Light post-processing.                                                  *)

Block(b)   == [i \in 1 .. RES_PER_DESC |-> result_tab[b * RES_PER_DESC + i]]
BlockSum(b) == SumFunction(Block(b))
BlockMax(b) == Max(Range(Block(b)))
BlockMin(b) == Min(Range(Block(b)))

Min2(a, b) == IF a < b THEN a ELSE b
Max2(a, b) == IF a > b THEN a ELSE b

(* A mutant: the else-if chain begun with the lowest threshold.            *)
LevelOfLowestFirst(mv) == IF mv > 200 THEN 1 ELSE 0

(* The threshold decision, on a peak in millivolts.                        *)
LevelOf(mv) ==
  CASE mv > 2400 -> 3
    [] mv > 900 /\ mv <= 2400 -> 2
    [] mv > 200 /\ mv <= 900  -> 1
    [] OTHER -> 0

PeakMv(b) == (BlockMax(b) * 3300) \div cal_div

(* A mutant: one result counted for a block of them.                       *)
AccumulatedAsOne(b, bytes) ==
  [stat EXCEPT !.frames = @ + 1, !.bytes = @ + bytes, !.results = @ + 1,
               !.sum = @ + BlockSum(b), !.min = Min2(@, BlockMin(b)),
               !.max = Max2(@, BlockMax(b)), !.acc_mv = @ + PeakMv(b),
               !.over = IF LevelOf(PeakMv(b)) = 3 THEN @ + 1 ELSE @]

(* The statistics after a block of results, the average among them.        *)
Accumulated(b, bytes) ==
  [frames  |-> stat.frames + 1,
   bytes   |-> stat.bytes + bytes,
   results |-> stat.results + RES_PER_DESC,
   sum     |-> stat.sum + BlockSum(b),
   min     |-> Min2(stat.min, BlockMin(b)),
   max     |-> Max2(stat.max, BlockMax(b)),
   over    |-> IF LevelOf(PeakMv(b)) = 3 THEN stat.over + 1 ELSE stat.over,
   full    |-> stat.full,
   acc_mv  |-> stat.acc_mv + PeakMv(b)]

Average(s) == s.sum \div s.results

(* The fields of the report word: 4, 2, 6 and 20 bits.                     *)
AVG_RANGE == 1048576
Report(chan, level, seq, avg) ==
  [chan |-> chan, level |-> level, seq |-> seq % 64, avg |-> avg % AVG_RANGE]

-----------------------------------------------------------------------------
(* The report queue.                                                       *)

(* A mutant: the increment without the mask.                               *)
OutSuccUnmasked(s) == s + 1

OutSucc(s) == (s + 1) % OUT_N

(* A mutant: a full queue refuses the new report and counts it dropped.    *)
PushRefused(rep) ==
  /\ UNCHANGED out_tail
  /\ IF OutSucc(out_head) = out_tail
     THEN out_dropped' = out_dropped + 1 /\ UNCHANGED <<out_ring, out_head>>
     ELSE /\ out_ring' = [out_ring EXCEPT ![out_head] = rep]
          /\ out_head' = OutSucc(out_head)
          /\ UNCHANGED out_dropped

(* A mutant: the oldest report overwritten without moving out_tail.        *)
PushOverTail(rep) ==
  /\ UNCHANGED <<out_tail, out_dropped>>
  /\ out_ring' = [out_ring EXCEPT ![out_head] = rep]
  /\ out_head' = OutSucc(out_head)

PushReport(rep) ==
  /\ IF OutSucc(out_head) = out_tail
     THEN out_tail' = OutSucc(out_tail) /\ out_dropped' = out_dropped + 1
     ELSE UNCHANGED <<out_tail, out_dropped>>
  /\ out_ring' = [out_ring EXCEPT ![out_head] = rep]
  /\ out_head' = OutSucc(out_head)

-----------------------------------------------------------------------------
(* The functions of the driver, each with everything it calls.             *)

Submit(j) ==
  /\ submit(j)
  /\ UNCHANGED <<stat, cal_div, hw_seq, reportVars, summaryVars>>

SubmitFull ==
  /\ mode = "task"
  /\ Full
  /\ stat' = [stat EXCEPT !.full = @ + 1]
  /\ UNCHANGED <<ringVars, cal_div, hw_seq, reportVars, summaryVars>>

Tick ==
  /\ accel_tick
  /\ hw_seq' = hw_seq + 1
  /\ UNCHANGED <<stat, cal_div, reportVars, summaryVars>>

Service ==
  /\ service_engine
  /\ UNCHANGED <<stat, cal_div, hw_seq, reportVars, summaryVars>>

PopDone ==
  /\ pop_done
  /\ LET d == ring[ring_tail]
         b == res_buf[ring_tail]
     IN /\ stat' = Accumulated(b, d.status.bytes)
        /\ PushReport(Report(d.chan, LevelOf(PeakMv(b)), d.seq, Average(stat')))
        /\ cal_div' = IF stat'.frames % (RecalMask + 1) = 0
                      THEN 3800 + (Average(stat') % 512) ELSE cal_div
  /\ UNCHANGED <<hw_seq, summaryVars>>

PopDoneExit ==
  /\ pop_done_exit
  /\ UNCHANGED <<stat, cal_div, hw_seq, reportVars, summaryVars>>

(* drain_reports: its loop is a mode of its own.                           *)
DrainReports ==
  /\ mode = "task"
  /\ mode' = "drain"
  /\ UNCHANGED <<ring, src_buf, res_buf, ring_head, ring_tail, hw_cursor, hw_inflight,
                 hw_res, irq, last, stat, cal_div, hw_seq, reportVars, summaryVars>>

DrainOne ==
  /\ mode = "drain"
  /\ out_tail # out_head
  /\ LET rep  == out_ring[out_tail]
         chan == rep.chan % NCHAN
     IN /\ level_count' = [level_count EXCEPT ![rep.level] = @ + 1]
        /\ chan_mag' = [chan_mag EXCEPT ![chan] = @ + rep.avg]
        /\ chan_events' = IF rep.level >= 2
                          THEN [chan_events EXCEPT ![chan] = @ + 1] ELSE chan_events
  /\ out_tail' = OutSucc(out_tail)
  /\ UNCHANGED <<ringVars, stat, cal_div, hw_seq, out_ring, out_head, out_dropped>>

DrainExit ==
  /\ mode = "drain"
  /\ out_tail = out_head
  /\ mode' = "task"
  /\ UNCHANGED <<ring, src_buf, res_buf, ring_head, ring_tail, hw_cursor, hw_inflight,
                 hw_res, irq, last, stat, cal_div, hw_seq, reportVars, summaryVars>>

(* Any client, up to the bounds.                                           *)
MgrNext ==
  \/ \E j \in Job : stat.frames + ring_used < MaxFrames /\ Submit(j)
  \/ stat.full < MaxFull /\ SubmitFull
  \/ Tick
  \/ Service
  \/ PopDone
  \/ PopDoneExit
  \/ DrainReports
  \/ DrainOne
  \/ DrainExit

MgrSpec == InitMgr /\ [][MgrNext]_mgrVars

(* bench_run calls accel_tick and service_engine in pairs until the ring   *)
(* has room, and in the end until it is empty, so neither call is withheld *)
(* for ever, whatever is drained in between; the loops of pop_done and     *)
(* drain_reports run to their ends.                                        *)
MgrFairness ==
  /\ SF_mgrVars(Tick) /\ SF_mgrVars(Service)
  /\ WF_mgrVars(PopDone) /\ WF_mgrVars(PopDoneExit)
  /\ WF_mgrVars(DrainOne) /\ WF_mgrVars(DrainExit)

MgrLiveSpec == MgrSpec /\ MgrFairness

-----------------------------------------------------------------------------
Stats == [frames : Nat, bytes : Nat, results : Nat, sum : Nat, min : Nat,
          max : Nat, over : Nat, full : Nat, acc_mv : Nat]

ReportWords == [chan : 0 .. 15, level : Level, seq : 0 .. 63, avg : 0 .. AVG_RANGE - 1]

MgrTypeOK ==
  /\ stat \in Stats
  /\ cal_div \in Nat \ {0}
  /\ hw_seq \in Nat
  /\ out_ring \in [OutSlot -> ReportWords]
  /\ out_head \in OutSlot /\ out_tail \in OutSlot
  /\ out_dropped \in Nat
  /\ level_count \in [Level -> Nat]
  /\ chan_mag \in [AppChannel -> Nat] /\ chan_events \in [AppChannel -> Nat]
  /\ mode \in {"task", "retire", "drain"}

(* The reports waiting for the application layer, oldest first.            *)
OutGap(from, to)  == (to - from) % OUT_N
OutNth(from, i)   == (from + i - 1) % OUT_N
OutUsed(s)        == OutGap(out_tail, s) < OutGap(out_tail, out_head)
OutQueue == [i \in 1 .. OutGap(out_tail, out_head) |-> out_ring[OutNth(out_tail, i)]]

QueuedEvents == {s \in OutSlot : OutUsed(s) /\ out_ring[s].level = 3}
HandedOn     == level_count[0] + level_count[1] + level_count[2] + level_count[3]

(* Every retired frame leaves one report, which is drained, waiting, or    *)
(* counted as dropped; and an event the driver saw reaches the application *)
(* layer unless its report was dropped, and no other does.                 *)
ReportsConserved ==
  /\ stat.frames = HandedOn + Len(OutQueue) + out_dropped
  /\ LET seen == level_count[3] + Cardinality(QueuedEvents)
     IN seen <= stat.over /\ stat.over <= seen + out_dropped

(* Frames are neither lost nor made up between submission and statistics.  *)
FramesConserved ==
  /\ hw_seq = stat.frames + Gap(ring_tail, hw_cursor)
  /\ stat.results = RES_PER_DESC * stat.frames

(* The queue gives reports out in order, and when it is full it gives up   *)
(* its oldest report for the new one (accelmgr.c:291), no other.           *)
DropsOldestOnly ==
  [][\/ UNCHANGED <<OutQueue, out_dropped>> /\ stat'.frames = stat.frames
     \/ /\ OutQueue # <<>> /\ OutQueue' = Tail(OutQueue)
        /\ stat'.frames = stat.frames /\ UNCHANGED out_dropped
     \/ /\ stat'.frames = stat.frames + 1
        /\ OutQueue' = Append(IF out_dropped' > out_dropped THEN Tail(OutQueue) ELSE OutQueue,
                              Report(last'.chan, LevelOf(PeakMv(last'.block)),
                                     last'.seq, Average(stat')))
        /\ out_dropped' > out_dropped => Len(OutQueue) = OUT_N - 1]_mgrVars
=============================================================================
