------------------------------ MODULE AccelRing ------------------------------
(***************************************************************************)
(* The descriptor ring of the accelmgr benchmark                           *)
(* (benchmarks/custom/accelmgr/accelmgr.c): the core submits descriptors   *)
(* at ring_head, the engine executes them at hw_cursor and the core        *)
(* retires them at ring_tail.  The three positions, the counter            *)
(* hw_inflight and the DONE bit of each descriptor are kept by different   *)
(* functions and have to agree.                                            *)
(*                                                                         *)
(* A loop of the C code is a mode, with one action per iteration.  The     *)
(* client is any caller of submit, accel_tick and service_engine.          *)
(*                                                                         *)
(* Left out: the registers that are only written (CTRL .. LEN, IRQMASK,    *)
(* DOORBELL), the addresses in a descriptor, which are functions of its    *)
(* slot, and the DESC_MODE bits, which nothing reads.                      *)
(***************************************************************************)
EXTENDS Integers, Sequences

CONSTANTS
  RING_N,    \* descriptors in the ring (a power of two)
  NBlocks,   \* blocks in result_tab: (RESULT_MASK + 1) / RES_PER_DESC
  BUF_BYTES, \* bytes of a staging area
  Job        \* the jobs a client may submit: [chan, nsamp, seq], the frame
             \* inside its staging area and the channel inside its 4 bits

ASSUME RingAssumption ==
  /\ RING_N \in Nat /\ RING_N >= 2
  /\ NBlocks \in Nat \ {0}
  /\ BUF_BYTES \in Nat
  /\ Job \subseteq [chan : Nat, nsamp : Nat, seq : Nat]
  /\ \A j \in Job : j.chan <= 15 /\ 6 + 2 * j.nsamp <= BUF_BYTES

Slot == 0 .. RING_N - 1
RING_MASK == RING_N - 1

(* A mutant: the increment without the mask.                               *)
SuccUnmasked(slot) == slot + 1

(* (slot + 1) & RING_MASK                                                  *)
Succ(slot) == (slot + 1) % RING_N

VARIABLES
  ring,         \* the descriptors: chan, bytes, seq, and the status word
  src_buf,      \* the frame staged for each descriptor
  res_buf,      \* the block of results the engine wrote for each descriptor
  ring_head,    \* next slot to submit to
  ring_tail,    \* next slot to retire
  hw_cursor,    \* next slot to execute
  hw_inflight,  \* doorbells the engine has not served
  hw_res,       \* next block of result_tab
  irq,          \* STAT_IRQ in REG_STATUS
  mode,         \* "task", or "retire" inside the loop of pop_done
  last          \* what pop_done took from the ring last

ringVars == <<ring, src_buf, res_buf, ring_head, ring_tail, hw_cursor,
              hw_inflight, hw_res, irq, mode, last>>

NotDone   == [done |-> FALSE, bytes |-> 0]    \* status = 0
Done(len) == [done |-> TRUE, bytes |-> len]   \* DESC_DONE | len

FreshDesc == [chan |-> 0, bytes |-> 0, seq |-> 0, status |-> NotDone]
NoFrame   == [nsamp |-> 0, seq |-> 0]
NoReport  == [chan |-> 0, bytes |-> 0, seq |-> 0, frame |-> NoFrame, block |-> 0]

(* bench_init.  It does not clear src_buf.                                 *)
InitRing ==
  /\ ring = [s \in Slot |-> FreshDesc]
  /\ src_buf = [s \in Slot |-> NoFrame]
  /\ res_buf = [s \in Slot |-> 0]
  /\ ring_head = 0 /\ ring_tail = 0
  /\ hw_cursor = 0 /\ hw_inflight = 0 /\ hw_res = 0
  /\ irq = FALSE
  /\ mode = "task"
  /\ last = NoReport

ring_used == (ring_head - ring_tail) % RING_N

(* A mutant: the comparison off by one, so that a full ring looks empty.   *)
FullTooLate == ring_used > RING_MASK

Full      == ring_used >= RING_MASK

-----------------------------------------------------------------------------
(* pack_frame: a header of 4 bytes, two bytes per sample, a checksum of 2. *)
FrameBytes(nsamp) == 6 + 2 * nsamp

(* A mutant: the frame staged beside the slot of its descriptor.           *)
SubmitStagesAhead(j) ==
  /\ mode = "task"
  /\ ~Full
  /\ src_buf' = [src_buf EXCEPT ![Succ(ring_head)] = [nsamp |-> j.nsamp, seq |-> j.seq]]
  /\ ring' = [ring EXCEPT ![ring_head] =
       [chan |-> j.chan, bytes |-> FrameBytes(j.nsamp), seq |-> j.seq, status |-> NotDone]]
  /\ ring_head' = Succ(ring_head)
  /\ hw_inflight' = hw_inflight + 1
  /\ UNCHANGED <<res_buf, ring_tail, hw_cursor, hw_res, irq, mode, last>>

submit(j) ==
  /\ mode = "task"
  /\ ~Full
  /\ src_buf' = [src_buf EXCEPT ![ring_head] = [nsamp |-> j.nsamp, seq |-> j.seq]]
  /\ ring' = [ring EXCEPT ![ring_head] =
       [chan |-> j.chan, bytes |-> FrameBytes(j.nsamp), seq |-> j.seq, status |-> NotDone]]
  /\ ring_head' = Succ(ring_head)
  /\ hw_inflight' = hw_inflight + 1
  /\ UNCHANGED <<res_buf, ring_tail, hw_cursor, hw_res, irq, mode, last>>

(* A mutant: the engine finds its descriptor at the core's tail.           *)
TickAtTail ==
  /\ mode = "task"
  /\ hw_inflight # 0
  /\ res_buf' = [res_buf EXCEPT ![ring_tail] = hw_res]
  /\ ring' = [ring EXCEPT ![ring_tail].status = Done(ring[ring_tail].bytes)]
  /\ hw_res' = (hw_res + 1) % NBlocks
  /\ hw_cursor' = Succ(hw_cursor)
  /\ hw_inflight' = hw_inflight - 1
  /\ irq' = TRUE
  /\ UNCHANGED <<src_buf, ring_head, ring_tail, mode, last>>

(* A mutant: the engine raises its interrupt and leaves DESC_DONE clear.   *)
TickWithoutDone ==
  /\ mode = "task"
  /\ hw_inflight # 0
  /\ res_buf' = [res_buf EXCEPT ![hw_cursor] = hw_res]
  /\ hw_res' = (hw_res + 1) % NBlocks
  /\ hw_cursor' = Succ(hw_cursor)
  /\ hw_inflight' = hw_inflight - 1
  /\ irq' = TRUE
  /\ UNCHANGED <<ring, src_buf, ring_head, ring_tail, mode, last>>

(* The hardware stand-in: serve one doorbell.                              *)
accel_tick ==
  /\ mode = "task"
  /\ hw_inflight # 0
  /\ res_buf' = [res_buf EXCEPT ![hw_cursor] = hw_res]
  /\ ring' = [ring EXCEPT ![hw_cursor].status = Done(ring[hw_cursor].bytes)]
  /\ hw_res' = (hw_res + 1) % NBlocks
  /\ hw_cursor' = Succ(hw_cursor)
  /\ hw_inflight' = hw_inflight - 1
  /\ irq' = TRUE
  /\ UNCHANGED <<src_buf, ring_head, ring_tail, mode, last>>

(* service_engine: acknowledge, then enter the loop of pop_done.           *)
service_engine ==
  /\ mode = "task"
  /\ irq' = FALSE
  /\ mode' = "retire"
  /\ UNCHANGED <<ring, src_buf, res_buf, ring_head, ring_tail, hw_cursor,
                 hw_inflight, hw_res, last>>

CanRetire == ring_used # 0 /\ ring[ring_tail].status.done

(* One iteration of pop_done.                                              *)
pop_done ==
  /\ mode = "retire"
  /\ CanRetire
  /\ LET d == ring[ring_tail]
     IN last' = [chan |-> d.chan, bytes |-> d.status.bytes, seq |-> d.seq,
                 frame |-> src_buf[ring_tail], block |-> res_buf[ring_tail]]
  /\ ring' = [ring EXCEPT ![ring_tail].status = NotDone]
  /\ ring_tail' = Succ(ring_tail)
  /\ UNCHANGED <<src_buf, res_buf, ring_head, hw_cursor, hw_inflight, hw_res, irq, mode>>

(* A mutant: the loop may give up after any descriptor.                    *)
PopDoneGivesUp ==
  /\ mode = "retire"
  /\ mode' = "task"
  /\ UNCHANGED <<ring, src_buf, res_buf, ring_head, ring_tail, hw_cursor,
                 hw_inflight, hw_res, irq, last>>

(* The loop ends: the ring is empty or its oldest descriptor is pending.   *)
pop_done_exit ==
  /\ mode = "retire"
  /\ ~CanRetire
  /\ mode' = "task"
  /\ UNCHANGED <<ring, src_buf, res_buf, ring_head, ring_tail, hw_cursor,
                 hw_inflight, hw_res, irq, last>>

RingNext ==
  \/ \E j \in Job : submit(j)
  \/ accel_tick
  \/ service_engine
  \/ pop_done
  \/ pop_done_exit

RingSpec == InitRing /\ [][RingNext]_ringVars

-----------------------------------------------------------------------------
Frames == [nsamp : Nat, seq : Nat]
Status == [done : BOOLEAN, bytes : Nat]

RingTypeOK ==
  /\ ring \in [Slot -> [chan : Nat, bytes : Nat, seq : Nat, status : Status]]
  /\ src_buf \in [Slot -> Frames]
  /\ res_buf \in [Slot -> 0 .. NBlocks - 1]
  /\ ring_head \in Slot /\ ring_tail \in Slot /\ hw_cursor \in Slot
  /\ hw_inflight \in 0 .. RING_MASK
  /\ hw_res \in 0 .. NBlocks - 1
  /\ irq \in BOOLEAN

(* The slots from one position up to another, going round the ring.        *)
Gap(from, to)        == (to - from) % RING_N
Between(from, to, s) == Gap(from, s) < Gap(from, to)
InUse(s)             == Between(ring_tail, ring_head, s)

(* The engine's cursor stays between tail and head, hw_inflight counts the *)
(* slots it still has to serve, and the DONE bits mark exactly the ones it *)
(* has served: otherwise the core waits for a descriptor the engine has    *)
(* forgotten, or retires one that was never executed.                      *)
Agreement ==
  /\ hw_inflight = Gap(hw_cursor, ring_head)
  /\ ring_used = Gap(ring_tail, hw_cursor) + hw_inflight
  /\ \A s \in Slot : ring[s].status.done <=> Between(ring_tail, hw_cursor, s)

(* The staged frame of a descriptor in use is the one its fields announce. *)
StagedAsDescribed ==
  \A s \in Slot : InUse(s) =>
    /\ ring[s].seq = src_buf[s].seq
    /\ ring[s].bytes = FrameBytes(src_buf[s].nsamp)
    /\ ring[s].status.done => ring[s].status.bytes = ring[s].bytes

(* accelmgr.c:104-105: a descriptor still in flight is never overwritten;  *)
(* neither is its staging area, nor results the core has not read.         *)
InFlightKept ==
  [][\A s \in Slot : InUse(s) /\ InUse(s)' =>
       /\ src_buf'[s] = src_buf[s]
       /\ [ring'[s] EXCEPT !.status = 0] = [ring[s] EXCEPT !.status = 0]
       /\ ring[s].status.done => res_buf'[s] = res_buf[s]]_ringVars

(* A completion is never left behind without an interrupt pending: once    *)
(* service_engine has returned, everything done has been retired.          *)
NoLostInterrupt ==
  mode # "retire" /\ ring[ring_tail].status.done => irq

-----------------------------------------------------------------------------
(* The ring as a bounded FIFO queue of jobs.                               *)
Nth(from, i) == (from + i - 1) % RING_N
JobAt(s) == [chan |-> ring[s].chan, nsamp |-> src_buf[s].nsamp, seq |-> ring[s].seq]

waiting ==
  [i \in 1 .. hw_inflight |-> JobAt(Nth(hw_cursor, i))]
executed ==
  [i \in 1 .. Gap(ring_tail, hw_cursor) |->
     LET s == Nth(ring_tail, i) IN [job |-> JobAt(s), block |-> res_buf[s]]]

Queue == INSTANCE JobQueue WITH
           Capacity <- RING_MASK, block <- hw_res

(* Jobs are executed and retired in the order of their submission, each    *)
(* once, with its own fields, frame and results.                           *)
ImplementsJobQueue == Queue!Spec

(* And every job that was accepted is retired in the end.                  *)
EveryJobRetired == Queue!LiveSpec
=============================================================================
