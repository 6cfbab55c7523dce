---------------------------- MODULE AccelMgrProofs ----------------------------
(***************************************************************************)
(* The invariants of AccelRing hold for a ring of any size, any number of  *)
(* result blocks and any set of jobs.  Agreement is what makes the others  *)
(* inductive: it says where the engine's cursor is, and so which slot a    *)
(* tick or a submission touches.                                           *)
(*                                                                         *)
(* The accelerator manager on top of it loses nothing: frames, reports and *)
(* events are conserved, for rings and report queues of any size, any      *)
(* results of the engine, and any order in which its functions are called. *)
(***************************************************************************)
EXTENDS AccelMgr, Sums, SequenceTheorems

-----------------------------------------------------------------------------
(* Positions on a circle of n slots: the ring here, and the report queue   *)
(* of AccelMgr.  The remainder is turned into a case distinction once,     *)
(* here; the rest is linear arithmetic.                                    *)
Circle(n)       == 0 .. n - 1
After(n, a)     == (a + 1) % n
Dist(n, a, b)   == (b - a) % n
Place(n, a, i)  == (a + i - 1) % n

LEMMA AfterCases ==
  ASSUME NEW n \in Nat, n >= 2, NEW a \in Circle(n)
  PROVE  /\ After(n, a) \in Circle(n)
         /\ After(n, a) = IF a = n - 1 THEN 0 ELSE a + 1
BY DEF Circle, After

LEMMA DistCases ==
  ASSUME NEW n \in Nat, n >= 2, NEW a \in Circle(n), NEW b \in Circle(n)
  PROVE  /\ Dist(n, a, b) \in Circle(n)
         /\ Dist(n, a, b) = IF b >= a THEN b - a ELSE b - a + n
BY DEF Circle, Dist

LEMMA PlaceCases ==
  ASSUME NEW n \in Nat, n >= 2, NEW a \in Circle(n), NEW i \in 1 .. n
  PROVE  /\ Place(n, a, i) \in Circle(n)
         /\ Place(n, a, i) = IF a + i - 1 < n THEN a + i - 1 ELSE a + i - 1 - n
BY DEF Circle, Place

(* Moving the far end up by one slot adds one, unless the circle is full.  *)
LEMMA DistGrows ==
  ASSUME NEW n \in Nat, n >= 2, NEW a \in Circle(n), NEW b \in Circle(n),
         Dist(n, a, b) < n - 1
  PROVE  Dist(n, a, After(n, b)) = Dist(n, a, b) + 1
<1>1. After(n, b) \in Circle(n) /\ After(n, b) = IF b = n - 1 THEN 0 ELSE b + 1
  BY AfterCases
<1>2. Dist(n, a, b) = IF b >= a THEN b - a ELSE b - a + n
  BY DistCases
<1>3. Dist(n, a, After(n, b)) = IF After(n, b) >= a THEN After(n, b) - a ELSE After(n, b) - a + n
  BY <1>1, DistCases
<1> QED
  BY <1>1, <1>2, <1>3 DEF Circle

(* Moving the near end up by one slot takes one off, unless it is empty.   *)
LEMMA DistShrinks ==
  ASSUME NEW n \in Nat, n >= 2, NEW a \in Circle(n), NEW b \in Circle(n),
         Dist(n, a, b) > 0
  PROVE  Dist(n, After(n, a), b) = Dist(n, a, b) - 1
<1>1. After(n, a) \in Circle(n) /\ After(n, a) = IF a = n - 1 THEN 0 ELSE a + 1
  BY AfterCases
<1>2. Dist(n, a, b) = IF b >= a THEN b - a ELSE b - a + n
  BY DistCases
<1>3. Dist(n, After(n, a), b) = IF b >= After(n, a) THEN b - After(n, a) ELSE b - After(n, a) + n
  BY <1>1, DistCases
<1> QED
  BY <1>1, <1>2, <1>3 DEF Circle

(* Distances from one position tell slots apart.                           *)
LEMMA DistInjective ==
  ASSUME NEW n \in Nat, n >= 2, NEW a \in Circle(n), NEW s \in Circle(n),
         NEW t \in Circle(n), s # t
  PROVE  Dist(n, a, s) # Dist(n, a, t)
<1>1. Dist(n, a, s) = IF s >= a THEN s - a ELSE s - a + n
  BY DistCases
<1>2. Dist(n, a, t) = IF t >= a THEN t - a ELSE t - a + n
  BY DistCases
<1>3. CASE s >= a /\ t >= a
  BY <1>1, <1>2, <1>3 DEF Circle
<1>4. CASE s >= a /\ t < a
  BY <1>1, <1>2, <1>4 DEF Circle
<1>5. CASE s < a /\ t >= a
  BY <1>1, <1>2, <1>5 DEF Circle
<1>6. CASE s < a /\ t < a
  BY <1>1, <1>2, <1>6 DEF Circle
<1> QED
  BY <1>3, <1>4, <1>5, <1>6 DEF Circle

(* The slots from a up to b: one more when b moves up, one less with a.    *)
LEMMA DistSelf ==
  ASSUME NEW n \in Nat, n >= 2, NEW a \in Circle(n)
  PROVE  Dist(n, a, a) = 0
<1>1. Dist(n, a, a) = IF a >= a THEN a - a ELSE a - a + n
  BY DistCases
<1> QED
  BY <1>1 DEF Circle

LEMMA WithinGrows ==
  ASSUME NEW n \in Nat, n >= 2, NEW a \in Circle(n), NEW b \in Circle(n),
         Dist(n, a, b) < n - 1, NEW s \in Circle(n)
  PROVE  Dist(n, a, s) < Dist(n, a, After(n, b)) <=> Dist(n, a, s) < Dist(n, a, b) \/ s = b
<1>1. Dist(n, a, After(n, b)) = Dist(n, a, b) + 1
  BY DistGrows
<1>2. Dist(n, a, s) \in Int /\ Dist(n, a, b) \in Int
  BY DistCases DEF Circle
<1>3. s # b => Dist(n, a, s) # Dist(n, a, b)
  BY DistInjective
<1> QED
  BY <1>1, <1>2, <1>3

LEMMA WithinShrinks ==
  ASSUME NEW n \in Nat, n >= 2, NEW a \in Circle(n), NEW b \in Circle(n),
         Dist(n, a, b) > 0, NEW s \in Circle(n)
  PROVE  Dist(n, After(n, a), s) < Dist(n, After(n, a), b) <=> Dist(n, a, s) < Dist(n, a, b) /\ s # a
<1>1. Dist(n, After(n, a), b) = Dist(n, a, b) - 1
  BY DistShrinks
<1>2. Dist(n, a, s) \in 0 .. n - 1 /\ Dist(n, a, b) \in 0 .. n - 1
  BY DistCases DEF Circle
<1>3. CASE s # a
  <2>1. Dist(n, a, s) > 0
    <3>1. Dist(n, a, s) # Dist(n, a, a)
      BY <1>3, DistInjective
    <3> QED
      BY <1>2, <3>1, DistSelf
  <2>2. Dist(n, After(n, a), s) = Dist(n, a, s) - 1
    BY <2>1, DistShrinks
  <2> QED
    BY <1>1, <1>2, <1>3, <2>2
<1>4. CASE s = a
  <2>1. /\ After(n, a) \in Circle(n) /\ After(n, a) = IF a = n - 1 THEN 0 ELSE a + 1
        /\ Dist(n, After(n, a), a) = IF a >= After(n, a) THEN a - After(n, a) ELSE a - After(n, a) + n
    BY AfterCases, DistCases
  <2>2. Dist(n, After(n, a), a) = n - 1
    BY <2>1 DEF Circle
  <2> QED
    BY <1>1, <1>2, <1>4, <2>2
<1> QED
  BY <1>3, <1>4

(* A circle is full when the next slot of one end is the other end.        *)
LEMMA FullCircle ==
  ASSUME NEW n \in Nat, n >= 2, NEW a \in Circle(n), NEW b \in Circle(n)
  PROVE  After(n, b) = a <=> Dist(n, a, b) = n - 1
<1>1. After(n, b) \in Circle(n) /\ After(n, b) = IF b = n - 1 THEN 0 ELSE b + 1
  BY AfterCases
<1>2. Dist(n, a, b) = IF b >= a THEN b - a ELSE b - a + n
  BY DistCases
<1> QED
  BY <1>1, <1>2 DEF Circle

(* The i-th slot from a is the one at the distance i - 1.                  *)
LEMMA PlaceDist ==
  ASSUME NEW n \in Nat, n >= 2, NEW a \in Circle(n), NEW i \in 1 .. n
  PROVE  Dist(n, a, Place(n, a, i)) = i - 1
<1>1. /\ Place(n, a, i) \in Circle(n)
      /\ Place(n, a, i) = IF a + i - 1 < n THEN a + i - 1 ELSE a + i - 1 - n
  BY PlaceCases
<1>2. Dist(n, a, Place(n, a, i)) =
        IF Place(n, a, i) >= a THEN Place(n, a, i) - a ELSE Place(n, a, i) - a + n
  BY <1>1, DistCases
<1> QED
  BY <1>1, <1>2 DEF Circle

LEMMA PlaceOfDist ==
  ASSUME NEW n \in Nat, n >= 2, NEW a \in Circle(n), NEW b \in Circle(n)
  PROVE  Place(n, a, Dist(n, a, b) + 1) = b
<1>1. Dist(n, a, b) \in Circle(n)
  BY DistCases
<1>2. Dist(n, a, b) \in Int /\ Dist(n, a, b) + 1 \in 1 .. n
  BY <1>1 DEF Circle
<1>3. /\ Place(n, a, Dist(n, a, b) + 1) \in Circle(n)
      /\ Dist(n, a, Place(n, a, Dist(n, a, b) + 1)) = Dist(n, a, b)
  BY <1>2, PlaceCases, PlaceDist
<1> QED
  BY <1>3, DistInjective

LEMMA PlaceOfAfter ==
  ASSUME NEW n \in Nat, n >= 2, NEW a \in Circle(n), NEW i \in 1 .. n - 1
  PROVE  Place(n, After(n, a), i) = Place(n, a, i + 1)
<1>1. After(n, a) \in Circle(n) /\ After(n, a) = IF a = n - 1 THEN 0 ELSE a + 1
  BY AfterCases
<1>2. i \in 1 .. n /\ i + 1 \in 1 .. n
  OBVIOUS
<1>3. Place(n, After(n, a), i) =
        IF After(n, a) + i - 1 < n THEN After(n, a) + i - 1 ELSE After(n, a) + i - 1 - n
  BY <1>1, <1>2, PlaceCases
<1>4. Place(n, a, i + 1) = IF a + (i + 1) - 1 < n THEN a + (i + 1) - 1 ELSE a + (i + 1) - 1 - n
  BY <1>2, PlaceCases
<1> QED
  BY <1>1, <1>3, <1>4 DEF Circle

-----------------------------------------------------------------------------
(* The same of the descriptor ring.                                        *)

LEMMA OnTheRing ==
  /\ RING_N \in Nat /\ RING_N >= 2 /\ Slot = Circle(RING_N)
  /\ \A a : Succ(a) = After(RING_N, a)
  /\ \A a, b : Gap(a, b) = Dist(RING_N, a, b)
  /\ \A a, i : Nth(a, i) = Place(RING_N, a, i)
BY RingAssumption DEF Slot, Circle, Succ, After, Gap, Dist, Nth, Place

LEMMA SuccCases ==
  ASSUME NEW s \in Slot
  PROVE  /\ Succ(s) \in Slot
         /\ Succ(s) = IF s = RING_N - 1 THEN 0 ELSE s + 1
BY OnTheRing, AfterCases

LEMMA GapCases ==
  ASSUME NEW a \in Slot, NEW b \in Slot
  PROVE  /\ Gap(a, b) \in Slot
         /\ Gap(a, b) = IF b >= a THEN b - a ELSE b - a + RING_N
BY OnTheRing, DistCases

LEMMA GapNat ==
  ASSUME NEW a \in Slot, NEW b \in Slot
  PROVE  Gap(a, b) \in Nat /\ Gap(a, b) < RING_N
BY GapCases, RingAssumption DEF Slot

LEMMA GapGrows ==
  ASSUME NEW a \in Slot, NEW b \in Slot, Gap(a, b) < RING_N - 1
  PROVE  Gap(a, Succ(b)) = Gap(a, b) + 1
BY OnTheRing, DistGrows

LEMMA GapShrinks ==
  ASSUME NEW a \in Slot, NEW b \in Slot, Gap(a, b) > 0
  PROVE  Gap(Succ(a), b) = Gap(a, b) - 1
BY OnTheRing, DistShrinks

LEMMA GapInjective ==
  ASSUME NEW a \in Slot, NEW s \in Slot, NEW t \in Slot, s # t
  PROVE  Gap(a, s) # Gap(a, t)
BY OnTheRing, DistInjective

LEMMA GapSelf ==
  ASSUME NEW a \in Slot
  PROVE  Gap(a, a) = 0
BY GapCases, RingAssumption DEF Slot

LEMMA NthCases ==
  ASSUME NEW a \in Slot, NEW i \in 1 .. RING_N
  PROVE  Nth(a, i) \in Slot
BY OnTheRing, PlaceCases

LEMMA NthGap ==
  ASSUME NEW a \in Slot, NEW i \in 1 .. RING_N
  PROVE  Gap(a, Nth(a, i)) = i - 1
BY OnTheRing, PlaceDist

LEMMA NthOfGap ==
  ASSUME NEW a \in Slot, NEW b \in Slot
  PROVE  Nth(a, Gap(a, b) + 1) = b
BY OnTheRing, PlaceOfDist

LEMMA NthOfSucc ==
  ASSUME NEW a \in Slot, NEW i \in 1 .. RING_N - 1
  PROVE  Nth(Succ(a), i) = Nth(a, i + 1)
BY OnTheRing, PlaceOfAfter

-----------------------------------------------------------------------------
RingInv == RingTypeOK /\ Agreement /\ StagedAsDescribed /\ NoLostInterrupt

LEMMA InitInv == InitRing => RingInv
<1> SUFFICES ASSUME InitRing PROVE RingInv
  OBVIOUS
<1>1. 0 \in Slot
  BY RingAssumption DEF Slot
<1>2. RingTypeOK
  <2>1. FreshDesc \in [chan : Nat, bytes : Nat, seq : Nat, status : Status]
    BY DEF FreshDesc, NotDone, Status
  <2>2. NoFrame \in Frames
    BY DEF NoFrame, Frames
  <2>3. 0 \in 0 .. NBlocks - 1 /\ 0 \in 0 .. RING_MASK
    BY RingAssumption DEF RING_MASK
  <2> QED
    BY <1>1, <2>1, <2>2, <2>3 DEF InitRing, RingTypeOK
<1>3. Gap(0, 0) = 0
  BY <1>1, GapSelf
<1>4. Agreement
  BY <1>1, <1>3, GapCases DEF InitRing, Agreement, ring_used, Gap, Between, FreshDesc, NotDone, Slot
<1>5. StagedAsDescribed
  BY <1>1, <1>3, GapCases DEF InitRing, StagedAsDescribed, InUse, Between, Slot
<1>6. NoLostInterrupt
  BY <1>1 DEF InitRing, NoLostInterrupt, FreshDesc, NotDone
<1> QED
  BY <1>2, <1>4, <1>5, <1>6 DEF RingInv

(* What Agreement says of the slots at the three positions.                *)
LEMMA Positions ==
  ASSUME RingInv
  PROVE  /\ ring_used = Gap(ring_tail, ring_head)
         /\ Gap(ring_tail, ring_head) = Gap(ring_tail, hw_cursor) + Gap(hw_cursor, ring_head)
         /\ hw_inflight = Gap(hw_cursor, ring_head)
         /\ \A s \in Slot : Gap(ring_tail, s) \in Slot
BY GapCases DEF RingInv, RingTypeOK, Agreement, ring_used, Gap

(* The slot at ring_head is outside every stretch of the ring in use, and  *)
(* the one at hw_cursor is the first the engine has not served.            *)
LEMMA Stretches ==
  ASSUME RingInv
  PROVE  /\ ~InUse(ring_head)
         /\ ~Between(ring_tail, hw_cursor, ring_head)
         /\ ~Between(ring_tail, hw_cursor, hw_cursor)
         /\ hw_inflight > 0 => InUse(hw_cursor)
         /\ ring_used > 0 => InUse(ring_tail)
<1>1. ring_head \in Slot /\ ring_tail \in Slot /\ hw_cursor \in Slot
  BY DEF RingInv, RingTypeOK
<1>2. Gap(ring_tail, ring_tail) = 0
  BY <1>1, GapSelf
<1>3. Gap(ring_tail, ring_head) \in Nat /\ Gap(ring_tail, hw_cursor) \in Nat
      /\ Gap(hw_cursor, ring_head) \in Nat
  BY <1>1, GapNat
<1> QED
  BY <1>2, <1>3, Positions DEF InUse, Between

-----------------------------------------------------------------------------
(* Each action keeps the invariant.                                        *)

LEMMA SubmitInv ==
  ASSUME RingInv, NEW j \in Job, submit(j)
  PROVE  RingInv'
<1>1. j \in [chan : Nat, nsamp : Nat, seq : Nat]
  BY RingAssumption
<1>2. ring_head \in Slot /\ ring_tail \in Slot /\ hw_cursor \in Slot /\ Succ(ring_head) \in Slot
  BY SuccCases DEF RingInv, RingTypeOK
<1>3. /\ ring_used = Gap(ring_tail, ring_head)
      /\ Gap(ring_tail, ring_head) = Gap(ring_tail, hw_cursor) + Gap(hw_cursor, ring_head)
      /\ hw_inflight = Gap(hw_cursor, ring_head)
  BY Positions
<1>4. /\ Gap(ring_tail, ring_head) \in Nat /\ Gap(ring_tail, hw_cursor) \in Nat
      /\ Gap(hw_cursor, ring_head) \in Nat
      /\ Gap(ring_tail, ring_head) < RING_N - 1 /\ Gap(hw_cursor, ring_head) < RING_N - 1
  <2>1. /\ Gap(ring_tail, ring_head) \in Nat /\ Gap(ring_tail, hw_cursor) \in Nat
        /\ Gap(hw_cursor, ring_head) \in Nat
    BY <1>2, GapNat
  <2>2. Gap(ring_tail, ring_head) < RING_N - 1
    <3>1. ~(ring_used >= RING_MASK)
      BY DEF submit, Full
    <3> QED
      BY <1>3, <2>1, <3>1, RingAssumption DEF RING_MASK
  <2> QED
    BY <1>3, <2>1, <2>2, RingAssumption
<1>5. /\ Gap(ring_tail, Succ(ring_head)) = Gap(ring_tail, ring_head) + 1
      /\ Gap(hw_cursor, Succ(ring_head)) = Gap(hw_cursor, ring_head) + 1
  BY <1>2, <1>4, GapGrows
<1>6. \A s \in Slot : s # ring_head => ring'[s] = ring[s] /\ src_buf'[s] = src_buf[s]
  BY DEF submit, RingInv, RingTypeOK
<1>7. /\ src_buf'[ring_head] = [nsamp |-> j.nsamp, seq |-> j.seq]
      /\ ring'[ring_head] = [chan |-> j.chan, bytes |-> FrameBytes(j.nsamp),
                             seq |-> j.seq, status |-> NotDone]
  BY <1>2 DEF submit, RingInv, RingTypeOK
<1>8. RingTypeOK'
  <2>1. ring'[ring_head] \in [chan : Nat, bytes : Nat, seq : Nat, status : Status]
    BY <1>1, <1>7 DEF FrameBytes, NotDone, Status
  <2>2. src_buf'[ring_head] \in Frames
    BY <1>1, <1>7 DEF Frames
  <2>3. /\ ring' \in [Slot -> [chan : Nat, bytes : Nat, seq : Nat, status : Status]]
        /\ src_buf' \in [Slot -> Frames]
    BY <1>2, <1>7, <2>1, <2>2 DEF RingInv, RingTypeOK, submit
  <2>4. hw_inflight' \in 0 .. RING_MASK
    <3>1. hw_inflight' = Gap(hw_cursor, ring_head) + 1
      BY <1>3 DEF submit
    <3> QED
      BY <3>1, <1>4, RingAssumption DEF RING_MASK
  <2> QED
    BY <1>2, <2>3, <2>4 DEF RingInv, RingTypeOK, submit
<1>9. Agreement'
  <2>1. hw_inflight' = Gap(hw_cursor, ring_head)'
    BY <1>3, <1>4, <1>5 DEF submit
  <2>2. ring_used' = (Gap(ring_tail, hw_cursor) + hw_inflight)'
    BY <1>3, <1>4, <1>5 DEF submit, ring_used, Gap
  <2>3. \A s \in Slot : ring'[s].status.done <=> Between(ring_tail, hw_cursor, s)
    <3>1. ring'[ring_head].status.done = FALSE
      BY <1>7 DEF NotDone
    <3> QED
      BY <1>6, <3>1, Stretches DEF RingInv, Agreement
  <2> QED
    BY <2>1, <2>2, <2>3 DEF Agreement, submit
<1>10. StagedAsDescribed'
  <2> SUFFICES ASSUME NEW s \in Slot, InUse(s)'
               PROVE  (/\ ring[s].seq = src_buf[s].seq
                       /\ ring[s].bytes = FrameBytes(src_buf[s].nsamp)
                       /\ ring[s].status.done => ring[s].status.bytes = ring[s].bytes)'
    BY DEF StagedAsDescribed
  <2>1. CASE s = ring_head
    BY <1>7, <2>1 DEF NotDone
  <2>2. CASE s # ring_head
    <3>1. Gap(ring_tail, s) # Gap(ring_tail, ring_head)
      BY <1>2, <2>2, GapInjective
    <3>2. Gap(ring_tail, s) \in Nat /\ Gap(ring_tail, s) < Gap(ring_tail, ring_head) + 1
      <4>1. Gap(ring_tail, s) \in Nat
        BY <1>2, GapNat
      <4> QED
        BY <4>1, <1>5 DEF InUse, Between, submit
    <3>3. InUse(s)
      BY <1>4, <3>1, <3>2 DEF InUse, Between
    <3> QED
      BY <1>6, <2>2, <3>3 DEF RingInv, StagedAsDescribed
  <2> QED
    BY <2>1, <2>2
<1>11. NoLostInterrupt'
  BY <1>2, <1>6, <1>7 DEF RingInv, NoLostInterrupt, submit, NotDone
<1> QED
  BY <1>8, <1>9, <1>10, <1>11 DEF RingInv

LEMMA TickInv ==
  ASSUME RingInv, accel_tick
  PROVE  RingInv'
<1>1. /\ ring_head \in Slot /\ ring_tail \in Slot /\ hw_cursor \in Slot
      /\ Succ(hw_cursor) \in Slot
  BY SuccCases DEF RingInv, RingTypeOK
<1>2. /\ ring_used = Gap(ring_tail, ring_head)
      /\ Gap(ring_tail, ring_head) = Gap(ring_tail, hw_cursor) + Gap(hw_cursor, ring_head)
      /\ hw_inflight = Gap(hw_cursor, ring_head)
  BY Positions
<1>3. /\ Gap(ring_tail, ring_head) \in Nat /\ Gap(ring_tail, hw_cursor) \in Nat
      /\ Gap(hw_cursor, ring_head) \in Nat
      /\ Gap(hw_cursor, ring_head) > 0
      /\ Gap(ring_tail, ring_head) <= RING_N - 1
  <2>1. /\ Gap(ring_tail, ring_head) \in Nat /\ Gap(ring_tail, hw_cursor) \in Nat
        /\ Gap(hw_cursor, ring_head) \in Nat
        /\ Gap(ring_tail, ring_head) < RING_N
    BY <1>1, GapNat
  <2>2. Gap(hw_cursor, ring_head) # 0
    BY <1>2 DEF accel_tick
  <2> QED
    BY <2>1, <2>2, RingAssumption
<1>4. Gap(ring_tail, hw_cursor) < RING_N - 1
  BY <1>2, <1>3, RingAssumption
<1>5. /\ Gap(ring_tail, Succ(hw_cursor)) = Gap(ring_tail, hw_cursor) + 1
      /\ Gap(Succ(hw_cursor), ring_head) = Gap(hw_cursor, ring_head) - 1
  BY <1>1, <1>3, <1>4, GapGrows, GapShrinks
<1>6. \A s \in Slot : s # hw_cursor => ring'[s] = ring[s] /\ res_buf'[s] = res_buf[s]
  BY DEF accel_tick, RingInv, RingTypeOK
<1>7. ring'[hw_cursor] = [ring[hw_cursor] EXCEPT !.status = Done(ring[hw_cursor].bytes)]
  BY <1>1 DEF accel_tick, RingInv, RingTypeOK
<1>8. ring[hw_cursor] \in [chan : Nat, bytes : Nat, seq : Nat, status : Status]
  BY <1>1 DEF RingInv, RingTypeOK
<1>9. RingTypeOK'
  <2>1. Done(ring[hw_cursor].bytes) \in Status
    BY <1>8 DEF Done, Status
  <2>2. ring' \in [Slot -> [chan : Nat, bytes : Nat, seq : Nat, status : Status]]
    BY <1>1, <1>8, <2>1 DEF RingInv, RingTypeOK, accel_tick
  <2>3. hw_inflight' \in 0 .. RING_MASK
    <3>1. hw_inflight' = Gap(hw_cursor, ring_head) - 1
      BY <1>2 DEF accel_tick
    <3> QED
      BY <3>1, <1>2, <1>3, RingAssumption DEF RING_MASK
  <2>4. hw_res' \in 0 .. NBlocks - 1
    BY RingAssumption DEF RingInv, RingTypeOK, accel_tick
  <2>5. res_buf' \in [Slot -> 0 .. NBlocks - 1]
    BY <1>1 DEF RingInv, RingTypeOK, accel_tick
  <2> QED
    BY <1>1, <2>2, <2>3, <2>4, <2>5 DEF RingInv, RingTypeOK, accel_tick
<1>10. Agreement'
  <2>1. hw_inflight' = Gap(hw_cursor, ring_head)'
    BY <1>2, <1>3, <1>5 DEF accel_tick
  <2>2. ring_used' = (Gap(ring_tail, hw_cursor) + hw_inflight)'
    <3>1. ring_used' = ring_used
      BY DEF accel_tick, ring_used
    <3> QED
      BY <3>1, <1>2, <1>3, <1>5 DEF accel_tick
  <2>3. \A s \in Slot : ring'[s].status.done <=> Gap(ring_tail, s) < Gap(ring_tail, hw_cursor) + 1
    <3> SUFFICES ASSUME NEW s \in Slot
                 PROVE  ring'[s].status.done <=> Gap(ring_tail, s) < Gap(ring_tail, hw_cursor) + 1
      OBVIOUS
    <3>1. CASE s = hw_cursor
      <4>1. ring'[s].status.done = TRUE
        BY <1>7, <1>8, <3>1 DEF Done
      <4> QED
        BY <3>1, <4>1, <1>3
    <3>2. CASE s # hw_cursor
      <4>1. ring'[s].status.done <=> Gap(ring_tail, s) < Gap(ring_tail, hw_cursor)
        BY <1>6, <3>2 DEF RingInv, Agreement, Between
      <4>2. Gap(ring_tail, s) \in Nat /\ Gap(ring_tail, s) # Gap(ring_tail, hw_cursor)
        BY <1>1, <3>2, GapNat, GapInjective
      <4>3. Gap(ring_tail, s) < Gap(ring_tail, hw_cursor) <=> Gap(ring_tail, s) < Gap(ring_tail, hw_cursor) + 1
        BY <4>2, <1>3
      <4> QED
        BY <4>1, <4>3
    <3> QED
      BY <3>1, <3>2
  <2> QED
    BY <2>1, <2>2, <2>3, <1>5 DEF Agreement, accel_tick, Between
<1>11. StagedAsDescribed'
  <2> SUFFICES ASSUME NEW s \in Slot, InUse(s)'
               PROVE  (/\ ring[s].seq = src_buf[s].seq
                       /\ ring[s].bytes = FrameBytes(src_buf[s].nsamp)
                       /\ ring[s].status.done => ring[s].status.bytes = ring[s].bytes)'
    BY DEF StagedAsDescribed
  <2>1. InUse(s)
    BY DEF InUse, Between, accel_tick
  <2>2. CASE s = hw_cursor
    BY <1>7, <1>8, <2>1, <2>2 DEF RingInv, StagedAsDescribed, Done, accel_tick
  <2>3. CASE s # hw_cursor
    BY <1>6, <2>1, <2>3 DEF RingInv, StagedAsDescribed, accel_tick
  <2> QED
    BY <2>2, <2>3
<1>12. NoLostInterrupt'
  BY DEF NoLostInterrupt, accel_tick
<1> QED
  BY <1>9, <1>10, <1>11, <1>12 DEF RingInv

LEMMA ServiceInv ==
  ASSUME RingInv, service_engine
  PROVE  RingInv'
<1>1. RingTypeOK'
  BY DEF RingInv, RingTypeOK, service_engine
<1>2. Agreement'
  BY DEF RingInv, Agreement, service_engine, ring_used, Between
<1>3. StagedAsDescribed'
  BY DEF RingInv, StagedAsDescribed, service_engine, InUse, Between
<1>4. NoLostInterrupt'
  BY DEF NoLostInterrupt, service_engine
<1> QED
  BY <1>1, <1>2, <1>3, <1>4 DEF RingInv

(* A descriptor that is retired is in use, and the engine has served it.   *)
LEMMA PopInv ==
  ASSUME RingInv, pop_done
  PROVE  RingInv'
<1>1. /\ ring_head \in Slot /\ ring_tail \in Slot /\ hw_cursor \in Slot
      /\ Succ(ring_tail) \in Slot
  BY SuccCases DEF RingInv, RingTypeOK
<1>2. /\ ring_used = Gap(ring_tail, ring_head)
      /\ Gap(ring_tail, ring_head) = Gap(ring_tail, hw_cursor) + Gap(hw_cursor, ring_head)
      /\ hw_inflight = Gap(hw_cursor, ring_head)
  BY Positions
<1>3. /\ Gap(ring_tail, ring_head) \in Nat /\ Gap(ring_tail, hw_cursor) \in Nat
      /\ Gap(hw_cursor, ring_head) \in Nat
  BY <1>1, GapNat
<1>4. Gap(ring_tail, hw_cursor) > 0 /\ Gap(ring_tail, ring_head) > 0
  <2>1. ring[ring_tail].status.done
    BY DEF pop_done, CanRetire
  <2>2. Gap(ring_tail, ring_tail) < Gap(ring_tail, hw_cursor)
    BY <1>1, <2>1 DEF RingInv, Agreement, Between
  <2>3. Gap(ring_tail, ring_tail) = 0
    BY <1>1, GapSelf
  <2> QED
    BY <2>2, <2>3, <1>2, <1>3
<1>5. \A s \in Slot : Gap(ring_tail, s) > 0 => Gap(Succ(ring_tail), s) = Gap(ring_tail, s) - 1
  BY <1>1, GapShrinks
<1>6. \A s \in Slot : s # ring_tail => ring'[s] = ring[s]
  BY DEF pop_done, RingInv, RingTypeOK
<1>7. ring'[ring_tail] = [ring[ring_tail] EXCEPT !.status = NotDone]
  BY <1>1 DEF pop_done, RingInv, RingTypeOK
<1>8. ring[ring_tail] \in [chan : Nat, bytes : Nat, seq : Nat, status : Status]
  BY <1>1 DEF RingInv, RingTypeOK
(* The slot just left is now the last one of the ring.                     *)
<1>9. Gap(Succ(ring_tail), ring_tail) = RING_N - 1
  <2>1. Gap(Succ(ring_tail), ring_tail) = IF ring_tail >= Succ(ring_tail)
          THEN ring_tail - Succ(ring_tail) ELSE ring_tail - Succ(ring_tail) + RING_N
    BY <1>1, GapCases
  <2>2. Succ(ring_tail) = IF ring_tail = RING_N - 1 THEN 0 ELSE ring_tail + 1
    BY <1>1, SuccCases
  <2> QED
    BY <1>1, <2>1, <2>2, RingAssumption DEF Slot
<1>10. \A s \in Slot : s # ring_tail => Gap(ring_tail, s) \in Nat /\ Gap(ring_tail, s) > 0
  <2> SUFFICES ASSUME NEW s \in Slot, s # ring_tail
               PROVE  Gap(ring_tail, s) \in Nat /\ Gap(ring_tail, s) > 0
    OBVIOUS
  <2>1. Gap(ring_tail, s) # Gap(ring_tail, ring_tail)
    BY <1>1, GapInjective
  <2>2. Gap(ring_tail, ring_tail) = 0 /\ Gap(ring_tail, s) \in Nat
    BY <1>1, GapSelf, GapNat
  <2> QED
    BY <2>1, <2>2
<1>11. /\ Gap(Succ(ring_tail), hw_cursor) = Gap(ring_tail, hw_cursor) - 1
       /\ Gap(Succ(ring_tail), ring_head) = Gap(ring_tail, ring_head) - 1
  BY <1>1, <1>4, <1>5
<1>12. RingTypeOK'
  <2>1. ring' \in [Slot -> [chan : Nat, bytes : Nat, seq : Nat, status : Status]]
    BY <1>1, <1>8 DEF RingInv, RingTypeOK, pop_done, NotDone, Status
  <2> QED
    BY <1>1, <2>1 DEF RingInv, RingTypeOK, pop_done
<1>13. Agreement'
  <2>1. hw_inflight' = Gap(hw_cursor, ring_head)'
    BY <1>2 DEF pop_done
  <2>2. ring_used' = (Gap(ring_tail, hw_cursor) + hw_inflight)'
    <3>1. ring_used' = Gap(Succ(ring_tail), ring_head)
      BY DEF pop_done, ring_used, Gap
    <3> QED
      BY <3>1, <1>2, <1>3, <1>11 DEF pop_done
  <2>3. \A s \in Slot : ring'[s].status.done <=> Gap(Succ(ring_tail), s) < Gap(ring_tail, hw_cursor) - 1
    <3> SUFFICES ASSUME NEW s \in Slot
                 PROVE  ring'[s].status.done <=> Gap(Succ(ring_tail), s) < Gap(ring_tail, hw_cursor) - 1
      OBVIOUS
    <3>1. CASE s = ring_tail
      <4>1. ring'[s].status.done = FALSE
        BY <1>7, <1>8, <3>1 DEF NotDone
      <4>2. Gap(ring_tail, hw_cursor) < RING_N
        BY <1>1, GapNat
      <4> QED
        BY <3>1, <4>1, <4>2, <1>3, <1>9, RingAssumption
    <3>2. CASE s # ring_tail
      <4>1. ring'[s].status.done <=> Gap(ring_tail, s) < Gap(ring_tail, hw_cursor)
        BY <1>6, <3>2 DEF RingInv, Agreement, Between
      <4>2. Gap(ring_tail, s) \in Nat /\ Gap(Succ(ring_tail), s) = Gap(ring_tail, s) - 1
        BY <1>5, <1>10, <3>2
      <4>3. Gap(ring_tail, s) < Gap(ring_tail, hw_cursor) <=> Gap(Succ(ring_tail), s) < Gap(ring_tail, hw_cursor) - 1
        BY <4>2, <1>3
      <4> QED
        BY <4>1, <4>3
    <3> QED
      BY <3>1, <3>2
  <2> QED
    BY <2>1, <2>2, <2>3, <1>11 DEF Agreement, pop_done, Between
<1>14. StagedAsDescribed'
  <2> SUFFICES ASSUME NEW s \in Slot, InUse(s)'
               PROVE  (/\ ring[s].seq = src_buf[s].seq
                       /\ ring[s].bytes = FrameBytes(src_buf[s].nsamp)
                       /\ ring[s].status.done => ring[s].status.bytes = ring[s].bytes)'
    BY DEF StagedAsDescribed
  <2>1. Gap(Succ(ring_tail), s) < Gap(ring_tail, ring_head) - 1
    BY <1>11 DEF InUse, Between, pop_done
  <2>2. Gap(ring_tail, ring_head) < RING_N
    BY <1>1, GapNat
  <2>3. s # ring_tail
    BY <1>3, <1>9, <2>1, <2>2, RingAssumption
  <2>4. InUse(s)
    <3>1. Gap(ring_tail, s) \in Nat /\ Gap(Succ(ring_tail), s) = Gap(ring_tail, s) - 1
      BY <1>5, <1>10, <2>3
    <3> QED
      BY <3>1, <1>3, <2>1 DEF InUse, Between
  <2> QED
    BY <1>6, <2>3, <2>4 DEF RingInv, StagedAsDescribed, pop_done
<1>15. NoLostInterrupt'
  BY DEF NoLostInterrupt, pop_done
<1> QED
  BY <1>12, <1>13, <1>14, <1>15 DEF RingInv

(* The loop ends with nothing done left in the ring.                       *)
LEMMA PopExitInv ==
  ASSUME RingInv, pop_done_exit
  PROVE  RingInv'
<1>1. RingTypeOK'
  BY DEF RingInv, RingTypeOK, pop_done_exit
<1>2. Agreement'
  BY DEF RingInv, Agreement, pop_done_exit, ring_used, Between
<1>3. StagedAsDescribed'
  BY DEF RingInv, StagedAsDescribed, pop_done_exit, InUse, Between
<1>4. NoLostInterrupt'
  <2>1. ring_tail \in Slot /\ hw_cursor \in Slot /\ ring_head \in Slot
    BY DEF RingInv, RingTypeOK
  <2>2. ring[ring_tail].status.done => ring_used # 0
    <3>1. ring[ring_tail].status.done <=> Gap(ring_tail, ring_tail) < Gap(ring_tail, hw_cursor)
      BY <2>1 DEF RingInv, Agreement, Between
    <3>2. Gap(ring_tail, ring_tail) = 0 /\ Gap(ring_tail, hw_cursor) \in Nat
          /\ Gap(hw_cursor, ring_head) \in Nat
      BY <2>1, GapSelf, GapNat
    <3> QED
      BY <3>1, <3>2, Positions
  <2> QED
    BY <2>2 DEF NoLostInterrupt, pop_done_exit, CanRetire
<1> QED
  BY <1>1, <1>2, <1>3, <1>4 DEF RingInv

-----------------------------------------------------------------------------
LEMMA RingInvariant == RingSpec => []RingInv
<1>1. RingInv /\ [RingNext]_ringVars => RingInv'
  <2> SUFFICES ASSUME RingInv, [RingNext]_ringVars PROVE RingInv'
    OBVIOUS
  <2>1. ASSUME NEW j \in Job, submit(j) PROVE RingInv'
    BY <2>1, SubmitInv
  <2>2. CASE accel_tick
    BY <2>2, TickInv
  <2>3. CASE service_engine
    BY <2>3, ServiceInv
  <2>4. CASE pop_done
    BY <2>4, PopInv
  <2>5. CASE pop_done_exit
    BY <2>5, PopExitInv
  <2>6. CASE UNCHANGED ringVars
    BY <2>6 DEF ringVars, RingInv, RingTypeOK, Agreement, StagedAsDescribed,
       NoLostInterrupt, ring_used, InUse, Between
  <2> QED
    BY <2>1, <2>2, <2>3, <2>4, <2>5, <2>6 DEF RingNext
<1> QED
  BY <1>1, InitInv, PTL DEF RingSpec

(* Every index is a slot of the ring, every result block one of the table, *)
(* and the counter of doorbells stays below the size of the ring.          *)
THEOREM RingTyping == RingSpec => []RingTypeOK
<1>1. RingInv => RingTypeOK
  BY DEF RingInv
<1> QED
  BY <1>1, RingInvariant, PTL

(* The three positions, the counter of doorbells and the DONE bits of      *)
(* accelmgr.c agree at every moment.                                       *)
THEOREM PositionsAgree == RingSpec => []Agreement
<1>1. RingInv => Agreement
  BY DEF RingInv
<1> QED
  BY <1>1, RingInvariant, PTL

(* What pack_frame staged for a descriptor in use is what its fields say.  *)
THEOREM FramesStaged == RingSpec => []StagedAsDescribed
<1>1. RingInv => StagedAsDescribed
  BY DEF RingInv
<1> QED
  BY <1>1, RingInvariant, PTL

(* No completion waits at task level without its interrupt pending.        *)
THEOREM InterruptsKept == RingSpec => []NoLostInterrupt
<1>1. RingInv => NoLostInterrupt
  BY DEF RingInv
<1> QED
  BY <1>1, RingInvariant, PTL

(* accelmgr.c:104-105: nothing of a descriptor in flight is overwritten.   *)
THEOREM NothingOverwritten == RingSpec => InFlightKept
<1> DEFINE Kept(s) ==
      /\ src_buf'[s] = src_buf[s]
      /\ [ring'[s] EXCEPT !.status = 0] = [ring[s] EXCEPT !.status = 0]
      /\ ring[s].status.done => res_buf'[s] = res_buf[s]
<1>1. RingInv /\ [RingNext]_ringVars =>
        [\A s \in Slot : InUse(s) /\ InUse(s)' => Kept(s)]_ringVars
  <2> SUFFICES ASSUME RingInv, RingNext, NEW s \in Slot, InUse(s), InUse(s)'
               PROVE  Kept(s)
    BY DEF RingNext
  <2>1. ASSUME NEW j \in Job, submit(j) PROVE Kept(s)
    <3>1. s # ring_head
      BY Stretches
    <3> QED
      BY <2>1, <3>1 DEF submit, RingInv, RingTypeOK
  <2>2. CASE accel_tick
    <3>1. hw_cursor \in Slot /\ ring \in [Slot -> [chan : Nat, bytes : Nat, seq : Nat, status : Status]]
          /\ res_buf \in [Slot -> 0 .. NBlocks - 1]
      BY DEF RingInv, RingTypeOK
    <3>2. ~ring[hw_cursor].status.done
      BY <3>1, Stretches DEF RingInv, Agreement
    <3>3. CASE s = hw_cursor
      <4>1. ring'[s] = [ring[s] EXCEPT !.status = Done(ring[s].bytes)]
        BY <2>2, <3>1, <3>3 DEF accel_tick
      <4> QED
        BY <2>2, <3>1, <3>2, <3>3, <4>1 DEF accel_tick
    <3>4. CASE s # hw_cursor
      BY <2>2, <3>1, <3>4 DEF accel_tick
    <3> QED
      BY <3>3, <3>4
  <2>3. CASE service_engine
    BY <2>3 DEF service_engine
  <2>4. CASE pop_done
    <3>1. ring_tail \in Slot /\ ring \in [Slot -> [chan : Nat, bytes : Nat, seq : Nat, status : Status]]
      BY DEF RingInv, RingTypeOK
    <3>2. CASE s = ring_tail
      <4>1. ring'[s] = [ring[s] EXCEPT !.status = NotDone]
        BY <2>4, <3>1, <3>2 DEF pop_done
      <4> QED
        BY <2>4, <3>1, <4>1 DEF pop_done
    <3>3. CASE s # ring_tail
      BY <2>4, <3>1, <3>3 DEF pop_done
    <3> QED
      BY <3>2, <3>3
  <2>5. CASE pop_done_exit
    BY <2>5 DEF pop_done_exit
  <2> QED
    BY <2>1, <2>2, <2>3, <2>4, <2>5 DEF RingNext
<1> QED
  BY <1>1, RingInvariant, PTL DEF RingSpec, InFlightKept
-----------------------------------------------------------------------------
(* The ring implements JobQueue.  The waiting jobs are those from the      *)
(* cursor to the head, the executed ones those from the tail to the cursor.*)

(* Sequences given as functions of their index.                            *)
LEMMA SequenceGrows ==
  ASSUME NEW S, NEW n \in Nat, NEW f \in [1 .. n -> S], NEW g \in [1 .. n + 1 -> S],
         \A i \in 1 .. n : g[i] = f[i]
  PROVE  Len(f) = n /\ g = Append(f, g[n + 1])
<1>1. f \in Seq(S) /\ Len(f) = n /\ g \in Seq(S) /\ Len(g) = n + 1 /\ g[n + 1] \in S
  OBVIOUS
<1>2. /\ Append(f, g[n + 1]) \in Seq(S) /\ Len(Append(f, g[n + 1])) = n + 1
      /\ \A i \in 1 .. n : Append(f, g[n + 1])[i] = f[i]
      /\ Append(f, g[n + 1])[n + 1] = g[n + 1]
  BY <1>1, AppendProperties
<1>3. \A i \in 1 .. n + 1 : i \in 1 .. n \/ i = n + 1
  OBVIOUS
<1> QED
  BY <1>1, <1>2, <1>3, SeqEqual

LEMMA SequenceShrinks ==
  ASSUME NEW S, NEW n \in Nat \ {0}, NEW f \in [1 .. n -> S], NEW g \in [1 .. n - 1 -> S],
         \A i \in 1 .. n - 1 : g[i] = f[i + 1]
  PROVE  f # <<>> /\ Head(f) = f[1] /\ g = Tail(f)
<1>1. f \in Seq(S) /\ Len(f) = n /\ g \in Seq(S) /\ Len(g) = n - 1
  OBVIOUS
<1>2. f # <<>>
  BY <1>1
<1>3. /\ Tail(f) \in Seq(S) /\ Len(Tail(f)) = n - 1
      /\ \A i \in 1 .. n - 1 : Tail(f)[i] = f[i + 1]
  BY <1>1, <1>2, HeadTailProperties
<1> QED
  BY <1>1, <1>2, <1>3, SeqEqual

(* The job a slot holds after the step.                                    *)
NextJobAt(s) == [chan |-> ring'[s].chan, nsamp |-> src_buf'[s].nsamp, seq |-> ring'[s].seq]

JobRecord  == [chan : Nat, nsamp : Nat, seq : Nat]
ExecRecord == [job : JobRecord, block : 0 .. NBlocks - 1]

(* The mapped queues are sequences of the lengths the positions say.       *)
LEMMA QueueTypes ==
  ASSUME RingInv
  PROVE  /\ \A s \in Slot : JobAt(s) \in JobRecord
         /\ waiting \in [1 .. Gap(hw_cursor, ring_head) -> JobRecord]
         /\ executed \in [1 .. Gap(ring_tail, hw_cursor) -> ExecRecord]
<1>1. ring_head \in Slot /\ ring_tail \in Slot /\ hw_cursor \in Slot
  BY DEF RingInv, RingTypeOK
<1>2. \A s \in Slot : JobAt(s) \in JobRecord
  BY DEF RingInv, RingTypeOK, JobAt, JobRecord, Frames
<1>3. \A s \in Slot : [job |-> JobAt(s), block |-> res_buf[s]] \in ExecRecord
  BY <1>2 DEF RingInv, RingTypeOK, ExecRecord
<1>4. \A a \in Slot, b \in Slot : \A i \in 1 .. Gap(a, b) : Nth(a, i) \in Slot
  <2> SUFFICES ASSUME NEW a \in Slot, NEW b \in Slot, NEW i \in 1 .. Gap(a, b)
               PROVE  Nth(a, i) \in Slot
    OBVIOUS
  <2>1. Gap(a, b) \in Nat /\ Gap(a, b) < RING_N
    BY GapNat
  <2>2. i \in 1 .. RING_N
    BY <2>1, RingAssumption
  <2> QED
    BY <2>2, NthCases
<1>5. hw_inflight = Gap(hw_cursor, ring_head)
  BY Positions
<1> QED
  BY <1>1, <1>2, <1>3, <1>4, <1>5 DEF waiting, executed

(* The same of the next state.                                             *)
LEMMA NextQueueTypes ==
  RingInv' => (/\ waiting \in [1 .. Gap(hw_cursor, ring_head) -> JobRecord]
               /\ executed \in [1 .. Gap(ring_tail, hw_cursor) -> ExecRecord])'
<1>1. RingInv => /\ waiting \in [1 .. Gap(hw_cursor, ring_head) -> JobRecord]
                 /\ executed \in [1 .. Gap(ring_tail, hw_cursor) -> ExecRecord]
  BY QueueTypes
<1> QED
  BY <1>1, PTL

LEMMA SubmitMaps ==
  ASSUME RingInv, NEW j \in Job, submit(j)
  PROVE  Queue!Submit(j)
<1>1. j \in JobRecord
  BY RingAssumption DEF JobRecord
<1>2. ring_head \in Slot /\ ring_tail \in Slot /\ hw_cursor \in Slot
  BY DEF RingInv, RingTypeOK
<1> DEFINE n == Gap(hw_cursor, ring_head)
           m == Gap(ring_tail, hw_cursor)
<1>3. /\ n \in Nat /\ n < RING_N /\ m \in Nat /\ m < RING_N
      /\ Gap(ring_tail, ring_head) \in Nat
  BY <1>2, GapNat
<1>4. /\ ring_used = Gap(ring_tail, ring_head) /\ Gap(ring_tail, ring_head) = m + n
      /\ hw_inflight = n
  BY Positions
<1>5. n + m < RING_MASK
  BY <1>3, <1>4, RingAssumption DEF submit, Full, RING_MASK
<1>6. /\ waiting \in [1 .. n -> JobRecord] /\ executed \in [1 .. m -> ExecRecord]
  BY QueueTypes
<1>7. Len(waiting) + Len(executed) < RING_MASK
  BY <1>3, <1>5, <1>6
(* Nothing of the slots in use changes.                                    *)
<1>8. \A s \in Slot : s # ring_head => NextJobAt(s) = JobAt(s)
  <2>1. \A s \in Slot : s # ring_head => ring'[s] = ring[s] /\ src_buf'[s] = src_buf[s]
    BY DEF submit, RingInv, RingTypeOK
  <2> QED
    BY <2>1 DEF JobAt, NextJobAt
<1>9. NextJobAt(ring_head) = j
  <2>1. NextJobAt(ring_head) = [chan |-> j.chan, nsamp |-> j.nsamp, seq |-> j.seq]
    BY <1>2 DEF submit, NextJobAt, RingInv, RingTypeOK
  <2> QED
    BY <1>1, <2>1 DEF JobRecord
<1>10. waiting' = Append(waiting, j)
  <2>1. waiting' = [i \in 1 .. n + 1 |-> NextJobAt(Nth(hw_cursor, i))]
    BY <1>4 DEF waiting, submit, Nth, JobAt, NextJobAt
  <2>2. \A i \in 1 .. n : Nth(hw_cursor, i) \in Slot /\ Nth(hw_cursor, i) # ring_head
    <3> SUFFICES ASSUME NEW i \in 1 .. n
                 PROVE  Nth(hw_cursor, i) \in Slot /\ Nth(hw_cursor, i) # ring_head
      OBVIOUS
    <3>1. i \in 1 .. RING_N
      BY <1>3, RingAssumption
    <3>2. Nth(hw_cursor, i) \in Slot /\ Gap(hw_cursor, Nth(hw_cursor, i)) = i - 1
      BY <1>2, <3>1, NthCases, NthGap
    <3> QED
      BY <1>3, <3>2
  <2>3. Nth(hw_cursor, n + 1) = ring_head
    BY <1>2, NthOfGap
  <2>4. \A i \in 1 .. n : waiting'[i] = waiting[i]
    <3> SUFFICES ASSUME NEW i \in 1 .. n PROVE waiting'[i] = waiting[i]
      OBVIOUS
    <3>1. i \in 1 .. n + 1
      BY <1>3
    <3>2. waiting'[i] = NextJobAt(Nth(hw_cursor, i))
      BY <2>1, <3>1
    <3>3. waiting[i] = JobAt(Nth(hw_cursor, i))
      BY <1>4 DEF waiting
    <3> QED
      BY <1>8, <2>2, <3>2, <3>3
  <2>5. waiting'[n + 1] = j
    <3>1. n + 1 \in 1 .. n + 1
      BY <1>3
    <3> QED
      BY <1>9, <2>1, <2>3, <3>1 DEF submit
  <2>6. waiting' \in [1 .. n + 1 -> JobRecord]
    <3>1. waiting' = [i \in 1 .. n + 1 |-> waiting'[i]]
      BY <2>1
    <3>2. \A i \in 1 .. n + 1 : waiting'[i] \in JobRecord
      <4>1. \A i \in 1 .. n + 1 : i \in 1 .. n \/ i = n + 1
        BY <1>3
      <4> QED
        BY <1>1, <1>6, <2>4, <2>5, <4>1
    <3> QED
      BY <3>1, <3>2
  <2> QED
    BY <1>3, <1>6, <2>4, <2>5, <2>6, SequenceGrows
<1>11. executed' = executed
  <2>1. executed' = [i \in 1 .. m |-> [job |-> NextJobAt(Nth(ring_tail, i)), block |-> res_buf[Nth(ring_tail, i)]]]
    BY DEF executed, submit, Nth, Gap, JobAt, NextJobAt
  <2>2. \A i \in 1 .. m : Nth(ring_tail, i) \in Slot /\ Nth(ring_tail, i) # ring_head
    <3> SUFFICES ASSUME NEW i \in 1 .. m
                 PROVE  Nth(ring_tail, i) \in Slot /\ Nth(ring_tail, i) # ring_head
      OBVIOUS
    <3>1. i \in 1 .. RING_N
      BY <1>3, RingAssumption
    <3>2. Nth(ring_tail, i) \in Slot /\ Gap(ring_tail, Nth(ring_tail, i)) = i - 1
      BY <1>2, <3>1, NthCases, NthGap
    <3> QED
      BY <1>3, <1>4, <3>2
  <2>3. \A i \in 1 .. m : NextJobAt(Nth(ring_tail, i)) = JobAt(Nth(ring_tail, i))
    BY <1>8, <2>2
  <2> QED
    BY <2>1, <2>3 DEF executed
<1> QED
  BY <1>7, <1>10, <1>11 DEF Queue!Submit, submit

LEMMA TickMaps ==
  ASSUME RingInv, accel_tick
  PROVE  Queue!Execute
<1>1. /\ ring_head \in Slot /\ ring_tail \in Slot /\ hw_cursor \in Slot
      /\ Succ(hw_cursor) \in Slot
  BY SuccCases DEF RingInv, RingTypeOK
<1> DEFINE n == Gap(hw_cursor, ring_head)
           m == Gap(ring_tail, hw_cursor)
<1>2. /\ n \in Nat /\ n < RING_N /\ m \in Nat /\ m < RING_N
      /\ Gap(ring_tail, ring_head) \in Nat /\ Gap(ring_tail, ring_head) < RING_N
  BY <1>1, GapNat
<1>3. /\ Gap(ring_tail, ring_head) = m + n /\ hw_inflight = n
  BY Positions
<1>4. n > 0 /\ m < RING_N - 1
  BY <1>2, <1>3, RingAssumption DEF accel_tick
<1>5. /\ Gap(ring_tail, Succ(hw_cursor)) = m + 1
      /\ Gap(Succ(hw_cursor), ring_head) = n - 1
  BY <1>1, <1>4, GapGrows, GapShrinks
<1>6. waiting \in [1 .. n -> JobRecord] /\ executed \in [1 .. m -> ExecRecord]
  BY QueueTypes
<1>7. RingInv'
  BY TickInv
<1>8. waiting' \in [1 .. n - 1 -> JobRecord] /\ executed' \in [1 .. m + 1 -> ExecRecord]
  <2>1. Gap(hw_cursor, ring_head)' = n - 1 /\ Gap(ring_tail, hw_cursor)' = m + 1
    BY <1>5 DEF accel_tick
  <2>2. /\ waiting' \in [1 .. Gap(hw_cursor, ring_head)' -> JobRecord]
        /\ executed' \in [1 .. Gap(ring_tail, hw_cursor)' -> ExecRecord]
    BY <1>7, NextQueueTypes
  <2> QED
    BY <2>1, <2>2
(* No job changes, and only the results at the cursor do.                  *)
<1>9. \A s \in Slot : NextJobAt(s) = JobAt(s)
  <2>1. \A s \in Slot : s # hw_cursor => ring'[s] = ring[s]
    BY DEF accel_tick, RingInv, RingTypeOK
  <2>2. ring'[hw_cursor] = [ring[hw_cursor] EXCEPT !.status = Done(ring[hw_cursor].bytes)]
    BY <1>1 DEF accel_tick, RingInv, RingTypeOK
  <2>3. ring[hw_cursor] \in [chan : Nat, bytes : Nat, seq : Nat, status : Status]
    BY <1>1 DEF RingInv, RingTypeOK
  <2>4. ring'[hw_cursor].chan = ring[hw_cursor].chan /\ ring'[hw_cursor].seq = ring[hw_cursor].seq
    BY <2>2, <2>3
  <2>5. src_buf' = src_buf
    BY DEF accel_tick
  <2> QED
    BY <2>1, <2>4, <2>5 DEF JobAt, NextJobAt
<1>10. /\ \A s \in Slot : s # hw_cursor => res_buf'[s] = res_buf[s]
       /\ res_buf'[hw_cursor] = hw_res
  BY <1>1 DEF accel_tick, RingInv, RingTypeOK
<1>11. waiting # <<>> /\ Head(waiting) = JobAt(hw_cursor) /\ waiting' = Tail(waiting)
  <2>1. \A i \in 1 .. n - 1 : waiting'[i] = waiting[i + 1]
    <3> SUFFICES ASSUME NEW i \in 1 .. n - 1 PROVE waiting'[i] = waiting[i + 1]
      OBVIOUS
    <3>1. i \in 1 .. RING_N - 1 /\ i + 1 \in 1 .. n /\ i + 1 \in 1 .. RING_N
      BY <1>2, RingAssumption
    <3>2. waiting'[i] = NextJobAt(Nth(Succ(hw_cursor), i))
      BY <1>3, <1>2 DEF waiting, accel_tick, Nth, JobAt, NextJobAt
    <3>3. Nth(Succ(hw_cursor), i) = Nth(hw_cursor, i + 1) /\ Nth(hw_cursor, i + 1) \in Slot
      BY <1>1, <3>1, NthOfSucc, NthCases
    <3>4. waiting[i + 1] = JobAt(Nth(hw_cursor, i + 1))
      BY <1>3, <3>1 DEF waiting
    <3> QED
      BY <1>9, <3>2, <3>3, <3>4
  <2>2. waiting[1] = JobAt(hw_cursor)
    <3>1. Nth(hw_cursor, 1) = hw_cursor
      BY <1>1, RingAssumption DEF Nth, Slot
    <3> QED
      BY <1>2, <1>3, <1>4, <3>1 DEF waiting
  <2> QED
    BY <1>2, <1>4, <1>6, <1>8, <2>1, <2>2, SequenceShrinks
<1>12. executed' = Append(executed, [job |-> JobAt(hw_cursor), block |-> hw_res])
  <2> DEFINE E(s) == [job |-> NextJobAt(s), block |-> res_buf'[s]]
  <2>1. executed' = [i \in 1 .. m + 1 |-> E(Nth(ring_tail, i))]
    BY <1>5 DEF executed, accel_tick, Nth, JobAt, NextJobAt
  <2>2. \A i \in 1 .. m : executed'[i] = executed[i]
    <3> SUFFICES ASSUME NEW i \in 1 .. m PROVE executed'[i] = executed[i]
      OBVIOUS
    <3>1. i \in 1 .. RING_N /\ i \in 1 .. m + 1
      BY <1>2, RingAssumption
    <3>2. Nth(ring_tail, i) \in Slot /\ Gap(ring_tail, Nth(ring_tail, i)) = i - 1
      BY <1>1, <3>1, NthCases, NthGap
    <3>3. Nth(ring_tail, i) # hw_cursor
      BY <1>2, <3>2
    <3>4. executed[i] = [job |-> JobAt(Nth(ring_tail, i)), block |-> res_buf[Nth(ring_tail, i)]]
      BY DEF executed
    <3>5. executed'[i] = E(Nth(ring_tail, i))
      BY <2>1, <3>1
    <3> QED
      BY <1>9, <1>10, <3>2, <3>3, <3>4, <3>5
  <2>3. executed'[m + 1] = [job |-> JobAt(hw_cursor), block |-> hw_res]
    <3>1. Nth(ring_tail, m + 1) = hw_cursor
      BY <1>1, NthOfGap
    <3>2. m + 1 \in 1 .. m + 1
      BY <1>2
    <3> QED
      BY <1>1, <1>9, <1>10, <2>1, <3>1, <3>2
  <2> QED
    BY <1>2, <1>6, <1>8, <2>2, <2>3, SequenceGrows
<1> QED
  BY <1>11, <1>12 DEF Queue!Execute, accel_tick

LEMMA PopMaps ==
  ASSUME RingInv, pop_done
  PROVE  Queue!Retire
<1>1. /\ ring_head \in Slot /\ ring_tail \in Slot /\ hw_cursor \in Slot
      /\ Succ(ring_tail) \in Slot
  BY SuccCases DEF RingInv, RingTypeOK
<1> DEFINE n == Gap(hw_cursor, ring_head)
           m == Gap(ring_tail, hw_cursor)
<1>2. n \in Nat /\ n < RING_N /\ m \in Nat /\ m < RING_N
  BY <1>1, GapNat
<1>3. hw_inflight = n
  BY Positions
<1>4. ring[ring_tail].status.done
  BY DEF pop_done, CanRetire
<1>5. m > 0
  <2>1. Gap(ring_tail, ring_tail) < m /\ Gap(ring_tail, ring_tail) = 0
    BY <1>1, <1>4, GapSelf DEF RingInv, Agreement, Between
  <2> QED
    BY <2>1
<1>6. Gap(Succ(ring_tail), hw_cursor) = m - 1
  BY <1>1, <1>5, GapShrinks
<1>7. waiting \in [1 .. n -> JobRecord] /\ executed \in [1 .. m -> ExecRecord]
  BY QueueTypes
<1>8. RingInv'
  BY PopInv
<1>9. executed' \in [1 .. m - 1 -> ExecRecord]
  <2>1. Gap(ring_tail, hw_cursor)' = m - 1
    BY <1>6 DEF pop_done
  <2> QED
    BY <1>8, <2>1, NextQueueTypes
<1>10. \A s \in Slot : NextJobAt(s) = JobAt(s)
  <2>1. \A s \in Slot : s # ring_tail => ring'[s] = ring[s]
    BY DEF pop_done, RingInv, RingTypeOK
  <2>2. ring'[ring_tail] = [ring[ring_tail] EXCEPT !.status = NotDone]
    BY <1>1 DEF pop_done, RingInv, RingTypeOK
  <2>3. ring[ring_tail] \in [chan : Nat, bytes : Nat, seq : Nat, status : Status]
    BY <1>1 DEF RingInv, RingTypeOK
  <2>4. ring'[ring_tail].chan = ring[ring_tail].chan /\ ring'[ring_tail].seq = ring[ring_tail].seq
    BY <2>2, <2>3
  <2>5. src_buf' = src_buf
    BY DEF pop_done
  <2> QED
    BY <2>1, <2>4, <2>5 DEF JobAt, NextJobAt
<1>11. waiting' = waiting
  <2>1. waiting' = [i \in 1 .. n |-> NextJobAt(Nth(hw_cursor, i))]
    BY <1>3 DEF waiting, pop_done, Nth, JobAt, NextJobAt
  <2>2. \A i \in 1 .. n : Nth(hw_cursor, i) \in Slot
    BY <1>1, <1>2, NthCases, RingAssumption
  <2> QED
    BY <1>3, <1>10, <2>1, <2>2 DEF waiting
<1>12. /\ executed # <<>> /\ executed' = Tail(executed)
       /\ Head(executed) = [job |-> JobAt(ring_tail), block |-> res_buf[ring_tail]]
  <2>1. \A i \in 1 .. m - 1 : executed'[i] = executed[i + 1]
    <3> SUFFICES ASSUME NEW i \in 1 .. m - 1 PROVE executed'[i] = executed[i + 1]
      OBVIOUS
    <3>1. i \in 1 .. RING_N - 1 /\ i + 1 \in 1 .. m /\ i + 1 \in 1 .. RING_N
      BY <1>2, RingAssumption
    <3>2. executed'[i] = [job |-> NextJobAt(Nth(Succ(ring_tail), i)),
                          block |-> res_buf[Nth(Succ(ring_tail), i)]]
      BY <1>6 DEF executed, pop_done, Nth, JobAt, NextJobAt
    <3>3. Nth(Succ(ring_tail), i) = Nth(ring_tail, i + 1) /\ Nth(ring_tail, i + 1) \in Slot
      BY <1>1, <3>1, NthOfSucc, NthCases
    <3>4. executed[i + 1] = [job |-> JobAt(Nth(ring_tail, i + 1)),
                             block |-> res_buf[Nth(ring_tail, i + 1)]]
      BY <3>1 DEF executed
    <3> QED
      BY <1>10, <3>2, <3>3, <3>4
  <2>2. executed[1] = [job |-> JobAt(ring_tail), block |-> res_buf[ring_tail]]
    <3>1. Nth(ring_tail, 1) = ring_tail
      BY <1>1, RingAssumption DEF Nth, Slot
    <3> QED
      BY <1>2, <1>5, <3>1 DEF executed
  <2> QED
    BY <1>2, <1>5, <1>7, <1>9, <2>1, <2>2, SequenceShrinks
(* What the core reads is what the fields of the job imply.                *)
<1>13. last' = Queue!Delivered(Head(executed))
  <2>1. /\ ring[ring_tail].seq = src_buf[ring_tail].seq
        /\ ring[ring_tail].status.bytes = 6 + 2 * src_buf[ring_tail].nsamp
    <3>1. InUse(ring_tail)
      BY Stretches, <1>1, GapNat DEF pop_done, CanRetire, RingInv, Agreement, InUse, Between
    <3> QED
      BY <1>1, <1>4, <3>1 DEF RingInv, StagedAsDescribed, FrameBytes
  <2>2. src_buf[ring_tail] = [nsamp |-> src_buf[ring_tail].nsamp, seq |-> src_buf[ring_tail].seq]
    <3>1. src_buf[ring_tail] \in Frames
      BY <1>1 DEF RingInv, RingTypeOK
    <3> QED
      BY <3>1 DEF Frames
  <2>3. last' = [chan |-> ring[ring_tail].chan, bytes |-> ring[ring_tail].status.bytes,
                 seq |-> ring[ring_tail].seq, frame |-> src_buf[ring_tail],
                 block |-> res_buf[ring_tail]]
    BY DEF pop_done
  <2> QED
    BY <1>12, <2>1, <2>2, <2>3 DEF Queue!Delivered, JobAt
<1> QED
  BY <1>11, <1>12, <1>13 DEF Queue!Retire, pop_done

(* The driver and the engine of accelmgr.c, with their three positions,    *)
(* their counter and their DONE bits, are the bounded queue of JobQueue:   *)
(* what the core retires are the jobs it submitted, in that order, each    *)
(* once, and with the results of its own execution.                        *)
THEOREM RingRefinesQueue == RingSpec => ImplementsJobQueue
<1>1. InitRing => Queue!Init
  <2> SUFFICES ASSUME InitRing PROVE Queue!Init
    OBVIOUS
  <2>1. 0 \in Slot
    BY RingAssumption DEF Slot
  <2>2. Gap(ring_tail, hw_cursor) = 0
    BY <2>1, GapSelf DEF InitRing
  <2>3. waiting = <<>> /\ executed = <<>>
    BY <2>2 DEF InitRing, waiting, executed
  <2> QED
    BY <2>3 DEF InitRing, Queue!Init, Queue!Nothing, NoReport, NoFrame
<1>2. RingInv /\ [RingNext]_ringVars => [Queue!Next]_(Queue!queueVars)
  <2> SUFFICES ASSUME RingInv, [RingNext]_ringVars
               PROVE  [Queue!Next]_(Queue!queueVars)
    OBVIOUS
  <2>1. ASSUME NEW j \in Job, submit(j) PROVE Queue!Next
    BY <2>1, SubmitMaps DEF Queue!Next
  <2>2. CASE accel_tick
    BY <2>2, TickMaps DEF Queue!Next
  <2>3. CASE pop_done
    BY <2>3, PopMaps DEF Queue!Next
  <2>4. CASE service_engine
    BY <2>4 DEF service_engine, Queue!queueVars, waiting, executed, JobAt, Nth, Gap
  <2>5. CASE pop_done_exit
    BY <2>5 DEF pop_done_exit, Queue!queueVars, waiting, executed, JobAt, Nth, Gap
  <2>6. CASE UNCHANGED ringVars
    BY <2>6 DEF ringVars, Queue!queueVars, waiting, executed, JobAt, Nth, Gap
  <2> QED
    BY <2>1, <2>2, <2>3, <2>4, <2>5, <2>6 DEF RingNext
<1> QED
  BY <1>1, <1>2, RingInvariant, PTL DEF RingSpec, ImplementsJobQueue, Queue!Spec

-----------------------------------------------------------------------------
(* A bounded set of naturals that is not empty has a maximum and a minimum.*)
LEMMA Extremes ==
  ASSUME NEW N \in Nat, NEW T \in SUBSET Nat, T # {}, \A x \in T : x <= N
  PROVE  Max(T) \in T /\ Min(T) \in T
<1>1. \E x \in T : \A y \in T : x <= y
  BY LeastElement
<1>2. \E x \in T : \A y \in T : x >= y
  <2> DEFINE U == {N - x : x \in T}
  <2>1. U \in SUBSET Nat /\ U # {}
    <3>1. \A x \in T : N - x \in Nat
      OBVIOUS
    <3> QED
      BY <3>1
  <2> HIDE DEF U
  <2>2. PICK m \in U : \A n \in U : m <= n
    BY <2>1, LeastElement
  <2>3. PICK x \in T : m = N - x
    BY DEF U
  <2>4. \A y \in T : N - y \in U
    BY DEF U
  <2>5. \A y \in T : N - x <= N - y
    BY <2>2, <2>3, <2>4
  <2> QED
    BY <2>5
<1> QED
  BY <1>1, <1>2 DEF Max, Min

-----------------------------------------------------------------------------
(* The statistics of a block.                                              *)

LEMMA BlockType ==
  ASSUME NEW b \in 0 .. NBlocks - 1
  PROVE  Block(b) \in [1 .. RES_PER_DESC -> Result]
<1> SUFFICES ASSUME NEW i \in 1 .. RES_PER_DESC
             PROVE  b * RES_PER_DESC + i \in 1 .. NBlocks * RES_PER_DESC
  BY MgrAssumption DEF Block
<1>1. NBlocks \in Nat /\ RES_PER_DESC \in Nat /\ b \in Nat /\ b + 1 <= NBlocks
  BY RingAssumption, MgrAssumption
<1>2. (b + 1) * RES_PER_DESC <= NBlocks * RES_PER_DESC
  BY <1>1
<1>3. (b + 1) * RES_PER_DESC = b * RES_PER_DESC + RES_PER_DESC
  BY <1>1
<1>4. b * RES_PER_DESC \in Nat /\ NBlocks * RES_PER_DESC \in Nat
  BY <1>1
<1> QED
  BY <1>1, <1>2, <1>3, <1>4

LEMMA BlockStatistics ==
  ASSUME NEW b \in 0 .. NBlocks - 1
  PROVE  BlockSum(b) \in Nat /\ BlockMax(b) \in Nat /\ BlockMin(b) \in Nat
<1>1. Block(b) \in [1 .. RES_PER_DESC -> Result]
  BY BlockType
<1>2. BlockSum(b) \in Nat
  <2>1. IsFiniteSet(1 .. RES_PER_DESC)
    BY FS_Interval, MgrAssumption
  <2>2. Block(b) \in [1 .. RES_PER_DESC -> Nat]
    <3>1. Result \subseteq Nat
      BY DEF Result
    <3> QED
      BY <1>1, <3>1
  <2> QED
    BY <2>1, <2>2, SumFunctionNat DEF BlockSum
<1>3. Range(Block(b)) \in SUBSET Result /\ Range(Block(b)) # {}
  <2>1. 1 \in 1 .. RES_PER_DESC
    BY MgrAssumption
  <2> QED
    BY <1>1, <2>1 DEF Range
<1>4. BlockMax(b) \in Result /\ BlockMin(b) \in Result
  <2> DEFINE T == Range(Block(b))
             N == 65535
  <2>1. N \in Nat /\ \A x \in Result : x \in Nat /\ x <= N
    BY DEF Result
  <2>2. T \in SUBSET Nat /\ T # {} /\ \A x \in T : x <= N
    BY <1>3, <2>1
  <2> HIDE DEF T, N
  <2>3. Max(T) \in T /\ Min(T) \in T
    BY <2>1, <2>2, Extremes
  <2> QED
    BY <1>3, <2>3 DEF BlockMax, BlockMin, T
<1>5. Result \subseteq Nat
  BY DEF Result
<1> QED
  BY <1>2, <1>4, <1>5

LEMMA LevelType ==
  ASSUME NEW mv \in Nat
  PROVE  LevelOf(mv) \in Level
BY DEF LevelOf, Level

LEMMA PeakType ==
  ASSUME NEW b \in 0 .. NBlocks - 1, cal_div \in Nat \ {0}
  PROVE  PeakMv(b) \in Nat /\ LevelOf(PeakMv(b)) \in Level
<1>1. BlockMax(b) * 3300 \in Nat
  BY BlockStatistics
<1>2. PeakMv(b) \in Nat
  BY <1>1 DEF PeakMv
<1> QED
  BY <1>2, LevelType
-----------------------------------------------------------------------------
(* The report queue: the slots of a circle from one position to another.   *)

LEMMA OnTheQueue ==
  /\ OUT_N \in Nat /\ OUT_N >= 2 /\ OutSlot = Circle(OUT_N)
  /\ \A a : OutSucc(a) = After(OUT_N, a)
  /\ \A a, b : OutGap(a, b) = Dist(OUT_N, a, b)
  /\ \A a, i : OutNth(a, i) = Place(OUT_N, a, i)
BY MgrAssumption DEF OutSlot, Circle, OutSucc, After, OutGap, Dist, OutNth, Place

LEMMA OutGapNat ==
  ASSUME NEW a \in OutSlot, NEW b \in OutSlot
  PROVE  OutGap(a, b) \in Nat /\ OutGap(a, b) <= OUT_N - 1
<1>1. OutGap(a, b) \in Circle(OUT_N)
  BY OnTheQueue, DistCases
<1> QED
  BY <1>1, OnTheQueue DEF Circle

LEMMA OutSuccType ==
  ASSUME NEW a \in OutSlot
  PROVE  OutSucc(a) \in OutSlot
BY OnTheQueue, AfterCases

(* What a buffer holds from t up to h, and the events among it.            *)
Buffer == [OutSlot -> ReportWords]
Contents(buf, t, h) == [i \in 1 .. OutGap(t, h) |-> buf[OutNth(t, i)]]
EventsIn(buf, t, h) == {s \in OutSlot : OutGap(t, s) < OutGap(t, h) /\ buf[s].level = 3}

LEMMA QueueIsContents ==
  /\ OutQueue = Contents(out_ring, out_tail, out_head)
  /\ QueuedEvents = EventsIn(out_ring, out_tail, out_head)
BY DEF OutQueue, QueuedEvents, OutUsed, Contents, EventsIn

LEMMA ContentsType ==
  ASSUME NEW buf \in Buffer, NEW t \in OutSlot, NEW h \in OutSlot
  PROVE  Contents(buf, t, h) \in [1 .. OutGap(t, h) -> ReportWords]
<1> SUFFICES ASSUME NEW i \in 1 .. OutGap(t, h) PROVE OutNth(t, i) \in OutSlot
  BY DEF Contents, Buffer
<1>1. i \in 1 .. OUT_N
  BY OutGapNat, OnTheQueue
<1> QED
  BY <1>1, OnTheQueue, PlaceCases

LEMMA ContentsLen ==
  ASSUME NEW buf \in Buffer, NEW t \in OutSlot, NEW h \in OutSlot
  PROVE  Len(Contents(buf, t, h)) = OutGap(t, h)
<1>1. Contents(buf, t, h) \in [1 .. OutGap(t, h) -> ReportWords] /\ OutGap(t, h) \in Nat
  BY ContentsType, OutGapNat
<1> QED
  BY <1>1

LEMMA EventsFinite ==
  ASSUME NEW buf, NEW t, NEW h
  PROVE  IsFiniteSet(EventsIn(buf, t, h)) /\ Cardinality(EventsIn(buf, t, h)) \in Nat
<1>1. IsFiniteSet(OutSlot)
  BY FS_Interval, OnTheQueue DEF OutSlot
<1> QED
  BY <1>1, FS_Subset, FS_CardinalityType DEF EventsIn

(* The oldest report is taken.                                             *)
LEMMA Taken ==
  ASSUME NEW buf \in Buffer, NEW t \in OutSlot, NEW h \in OutSlot,
         OutGap(t, h) > 0
  PROVE  /\ OutGap(OutSucc(t), h) = OutGap(t, h) - 1
         /\ Contents(buf, t, h) # <<>>
         /\ Contents(buf, OutSucc(t), h) = Tail(Contents(buf, t, h))
         /\ Cardinality(EventsIn(buf, OutSucc(t), h)) =
              Cardinality(EventsIn(buf, t, h)) - (IF buf[t].level = 3 THEN 1 ELSE 0)
<1>1. OutSucc(t) \in OutSlot
  BY OutSuccType
<1>2. OutGap(OutSucc(t), h) = OutGap(t, h) - 1
  BY OnTheQueue, DistShrinks
<1>3. Contents(buf, t, h) # <<>> /\ Contents(buf, OutSucc(t), h) = Tail(Contents(buf, t, h))
  <2> DEFINE n == OutGap(t, h)
             f == Contents(buf, t, h)
             g == Contents(buf, OutSucc(t), h)
  <2>1. n \in Nat \ {0} /\ n <= OUT_N - 1 /\ OUT_N \in Nat
    BY OutGapNat, OnTheQueue
  <2>2. f \in [1 .. n -> ReportWords] /\ g \in [1 .. n - 1 -> ReportWords]
    <3>1. f \in [1 .. OutGap(t, h) -> ReportWords] /\ g \in [1 .. OutGap(OutSucc(t), h) -> ReportWords]
      BY <1>1, ContentsType
    <3> QED
      BY <1>2, <3>1
  <2>3. \A i \in 1 .. n - 1 : g[i] = f[i + 1]
    <3> SUFFICES ASSUME NEW i \in 1 .. n - 1 PROVE g[i] = f[i + 1]
      OBVIOUS
    <3>1. i \in 1 .. OUT_N - 1 /\ i + 1 \in 1 .. n
      BY <2>1
    <3>2. OutNth(OutSucc(t), i) = OutNth(t, i + 1)
      BY <3>1, OnTheQueue, PlaceOfAfter
    <3>3. g[i] = buf[OutNth(OutSucc(t), i)] /\ f[i + 1] = buf[OutNth(t, i + 1)]
      BY <1>2, <3>1 DEF Contents
    <3> QED
      BY <3>2, <3>3
  <2> HIDE DEF n, f, g
  <2>4. f # <<>> /\ g = Tail(f)
    BY <2>1, <2>2, <2>3, SequenceShrinks
  <2> QED
    BY <2>4 DEF f, g
<1>4. EventsIn(buf, OutSucc(t), h) = EventsIn(buf, t, h) \ {t}
  <2>1. \A s \in OutSlot : OutGap(OutSucc(t), s) < OutGap(OutSucc(t), h)
                             <=> OutGap(t, s) < OutGap(t, h) /\ s # t
    BY OnTheQueue, WithinShrinks
  <2> QED
    BY <2>1 DEF EventsIn
<1>5. t \in EventsIn(buf, t, h) <=> buf[t].level = 3
  <2>1. OutGap(t, t) = 0
    BY OnTheQueue, DistSelf
  <2> QED
    BY <2>1 DEF EventsIn
<1> DEFINE E == EventsIn(buf, t, h)
<1>6. IsFiniteSet(E) /\ Cardinality(E) \in Nat
  BY EventsFinite
<1>7. Cardinality(E \ {t}) = IF t \in E THEN Cardinality(E) - 1 ELSE Cardinality(E)
  <2> HIDE DEF E
  <2> QED
    BY <1>6, FS_RemoveElement
<1>8. Cardinality(E \ {t}) = Cardinality(E) - (IF buf[t].level = 3 THEN 1 ELSE 0)
  <2> HIDE DEF E
  <2> QED
    BY <1>5, <1>6, <1>7 DEF E
<1> QED
  BY <1>2, <1>3, <1>4, <1>8

(* A report is put at the head of a queue that has room.                   *)
LEMMA Put ==
  ASSUME NEW buf \in Buffer, NEW t \in OutSlot, NEW h \in OutSlot,
         OutGap(t, h) < OUT_N - 1, NEW rep \in ReportWords, NEW buf2 \in Buffer,
         buf2[h] = rep, \A s \in OutSlot : s # h => buf2[s] = buf[s]
  PROVE  /\ OutGap(t, OutSucc(h)) = OutGap(t, h) + 1
         /\ Contents(buf2, t, OutSucc(h)) = Append(Contents(buf, t, h), rep)
         /\ Cardinality(EventsIn(buf2, t, OutSucc(h))) =
              Cardinality(EventsIn(buf, t, h)) + (IF rep.level = 3 THEN 1 ELSE 0)
<1>1. OutSucc(h) \in OutSlot
  BY OutSuccType
<1>2. OutGap(t, OutSucc(h)) = OutGap(t, h) + 1
  BY OnTheQueue, DistGrows
<1>3. /\ buf2 \in Buffer /\ buf2[h] = rep
      /\ \A s \in OutSlot : s # h => buf2[s] = buf[s]
  OBVIOUS
<1>4. Contents(buf2, t, OutSucc(h)) = Append(Contents(buf, t, h), rep)
  <2> DEFINE n == OutGap(t, h)
             f == Contents(buf, t, h)
             g == Contents(buf2, t, OutSucc(h))
  <2>1. n \in Nat /\ n < OUT_N - 1 /\ OUT_N \in Nat
    BY OutGapNat, OnTheQueue
  <2>2. f \in [1 .. n -> ReportWords] /\ g \in [1 .. n + 1 -> ReportWords]
    <3>1. f \in [1 .. OutGap(t, h) -> ReportWords] /\ g \in [1 .. OutGap(t, OutSucc(h)) -> ReportWords]
      BY <1>1, <1>3, ContentsType
    <3> QED
      BY <1>2, <3>1
  <2>3. \A i \in 1 .. n : g[i] = f[i]
    <3> SUFFICES ASSUME NEW i \in 1 .. n PROVE g[i] = f[i]
      OBVIOUS
    <3>1. i \in 1 .. OUT_N /\ i \in 1 .. n + 1
      BY <2>1
    <3>2. OutNth(t, i) \in OutSlot /\ OutGap(t, OutNth(t, i)) = i - 1
      BY <3>1, OnTheQueue, PlaceCases, PlaceDist
    <3>3. OutNth(t, i) # h
      BY <2>1, <3>2
    <3>4. g[i] = buf2[OutNth(t, i)] /\ f[i] = buf[OutNth(t, i)]
      BY <1>2, <3>1 DEF Contents
    <3> QED
      BY <1>3, <3>2, <3>3, <3>4
  <2>4. g[n + 1] = rep
    <3>1. n + 1 \in 1 .. n + 1
      BY <2>1
    <3>2. OutNth(t, n + 1) = h
      BY OnTheQueue, PlaceOfDist
    <3> QED
      BY <1>2, <1>3, <3>1, <3>2 DEF Contents
  <2> HIDE DEF n, f, g
  <2>5. g = Append(f, g[n + 1])
    BY <2>1, <2>2, <2>3, SequenceGrows
  <2> QED
    BY <2>4, <2>5 DEF f, g
<1> DEFINE E == EventsIn(buf, t, h)
<1>5. EventsIn(buf2, t, OutSucc(h)) = IF rep.level = 3 THEN E \cup {h} ELSE E
  <2>1. \A s \in OutSlot : OutGap(t, s) < OutGap(t, OutSucc(h))
                             <=> OutGap(t, s) < OutGap(t, h) \/ s = h
    BY OnTheQueue, WithinGrows
  <2>2. OutGap(t, h) \in Nat /\ ~(OutGap(t, h) < OutGap(t, h))
    BY OutGapNat
  <2> QED
    BY <1>3, <2>1, <2>2 DEF EventsIn
<1>6. IsFiniteSet(E) /\ Cardinality(E) \in Nat /\ h \notin E
  <2>1. OutGap(t, h) \in Nat /\ ~(OutGap(t, h) < OutGap(t, h))
    BY OutGapNat
  <2> QED
    BY <2>1, EventsFinite DEF EventsIn
<1>7. Cardinality(E \cup {h}) = Cardinality(E) + 1
  <2> HIDE DEF E
  <2> QED
    BY <1>6, FS_AddElement
<1>8. Cardinality(EventsIn(buf2, t, OutSucc(h))) = Cardinality(E) + (IF rep.level = 3 THEN 1 ELSE 0)
  <2> HIDE DEF E
  <2> QED
    BY <1>5, <1>6, <1>7
<1> QED
  BY <1>2, <1>3, <1>4, <1>8
-----------------------------------------------------------------------------
(* The invariant: that of the ring, the channels of its descriptors inside *)
(* the four bits a report has for them, and the conservation laws.         *)

ChansOK == \A s \in Slot : ring[s].chan \in 0 .. 15

MgrInv == RingInv /\ ChansOK /\ MgrTypeOK /\ FramesConserved /\ ReportsConserved

(* What a push does to the queue, with room and without.                   *)
LEMMA Pushed ==
  ASSUME MgrTypeOK, NEW rep \in ReportWords, PushReport(rep)
  PROVE  /\ out_ring' \in Buffer
         /\ out_head' \in OutSlot /\ out_tail' \in OutSlot
         /\ Len(OutQueue) \in Nat /\ Cardinality(QueuedEvents) \in Nat
         /\ \/ /\ out_dropped' = out_dropped
               /\ OutQueue' = Append(OutQueue, rep)
               /\ Len(OutQueue') = Len(OutQueue) + 1
               /\ Cardinality(QueuedEvents') =
                    Cardinality(QueuedEvents) + (IF rep.level = 3 THEN 1 ELSE 0)
            \/ /\ out_dropped' = out_dropped + 1
               /\ Len(OutQueue) = OUT_N - 1
               /\ OutQueue' = Append(Tail(OutQueue), rep)
               /\ Len(OutQueue') = Len(OutQueue)
               /\ \E lost \in {0, 1} : Cardinality(QueuedEvents') =
                    (Cardinality(QueuedEvents) - lost) + (IF rep.level = 3 THEN 1 ELSE 0)
<1> DEFINE t == out_tail
           h == out_head
<1>1. out_ring \in Buffer /\ t \in OutSlot /\ h \in OutSlot
  BY DEF MgrTypeOK, Buffer
<1>2. /\ out_head' = OutSucc(h) /\ OutSucc(h) \in OutSlot /\ OutSucc(t) \in OutSlot
      /\ out_ring' \in Buffer /\ out_ring'[h] = rep
      /\ \A s \in OutSlot : s # h => out_ring'[s] = out_ring[s]
  BY <1>1, OutSuccType DEF PushReport, Buffer
<1>3. /\ OutQueue = Contents(out_ring, t, h)
      /\ QueuedEvents = EventsIn(out_ring, t, h)
  BY QueueIsContents
<1>4. /\ OutQueue' = Contents(out_ring', out_tail', out_head')
      /\ QueuedEvents' = EventsIn(out_ring', out_tail', out_head')
  <2>1. (OutQueue = Contents(out_ring, out_tail, out_head)
         /\ QueuedEvents = EventsIn(out_ring, out_tail, out_head))'
    BY QueueIsContents, PTL
  <2> QED
    BY <2>1 DEF Contents, EventsIn, OutGap, OutNth
<1>5. /\ Len(OutQueue) = OutGap(t, h) /\ OutGap(t, h) \in Nat /\ OutGap(t, h) <= OUT_N - 1
      /\ OUT_N \in Nat /\ OUT_N >= 2 /\ Cardinality(QueuedEvents) \in Nat
  BY <1>1, <1>3, ContentsLen, EventsFinite, OutGapNat, OnTheQueue
<1>6. CASE OutSucc(h) # t
  <2>1. out_tail' = t /\ out_dropped' = out_dropped
    BY <1>6 DEF PushReport
  <2>2. OutGap(t, h) < OUT_N - 1
    <3>1. OutGap(t, h) # OUT_N - 1
      BY <1>1, <1>6, OnTheQueue, FullCircle
    <3> QED
      BY <1>5, <3>1
  <2>3. /\ OutGap(t, OutSucc(h)) = OutGap(t, h) + 1
        /\ Contents(out_ring', t, OutSucc(h)) = Append(Contents(out_ring, t, h), rep)
        /\ Cardinality(EventsIn(out_ring', t, OutSucc(h))) =
             Cardinality(EventsIn(out_ring, t, h)) + (IF rep.level = 3 THEN 1 ELSE 0)
    BY <1>1, <1>2, <2>2, Put
  <2>4. Len(Contents(out_ring', t, OutSucc(h))) = OutGap(t, h) + 1
    BY <1>1, <1>2, <2>3, ContentsLen
  <2> QED
    BY <1>1, <1>2, <1>3, <1>4, <1>5, <2>1, <2>3, <2>4
<1>7. CASE OutSucc(h) = t
  <2>1. out_tail' = OutSucc(t) /\ out_dropped' = out_dropped + 1
    BY <1>7 DEF PushReport
  <2>2. OutGap(t, h) = OUT_N - 1 /\ OutGap(t, h) > 0
    <3>1. OutGap(t, h) = OUT_N - 1
      BY <1>1, <1>7, OnTheQueue, FullCircle
    <3> QED
      BY <1>5, <3>1
  <2>3. /\ OutGap(OutSucc(t), h) = OutGap(t, h) - 1
        /\ Contents(out_ring, OutSucc(t), h) = Tail(Contents(out_ring, t, h))
        /\ Cardinality(EventsIn(out_ring, OutSucc(t), h)) =
             Cardinality(EventsIn(out_ring, t, h)) - (IF out_ring[t].level = 3 THEN 1 ELSE 0)
    BY <1>1, <2>2, Taken
  <2>4. OutGap(OutSucc(t), h) < OUT_N - 1
    BY <1>5, <2>2, <2>3
  <2>5. /\ OutGap(OutSucc(t), OutSucc(h)) = OutGap(OutSucc(t), h) + 1
        /\ Contents(out_ring', OutSucc(t), OutSucc(h)) =
             Append(Contents(out_ring, OutSucc(t), h), rep)
        /\ Cardinality(EventsIn(out_ring', OutSucc(t), OutSucc(h))) =
             Cardinality(EventsIn(out_ring, OutSucc(t), h)) + (IF rep.level = 3 THEN 1 ELSE 0)
    BY <1>1, <1>2, <2>4, Put
  <2>6. Len(Contents(out_ring', OutSucc(t), OutSucc(h))) = OutGap(t, h)
    <3>1. Len(Contents(out_ring', OutSucc(t), OutSucc(h))) = OutGap(OutSucc(t), OutSucc(h))
      BY <1>1, <1>2, ContentsLen
    <3> QED
      BY <1>5, <2>3, <2>5, <3>1
  <2>7. OutQueue' = Append(Tail(OutQueue), rep) /\ Len(OutQueue') = Len(OutQueue)
    BY <1>2, <1>3, <1>4, <1>5, <2>1, <2>3, <2>5, <2>6
  <2>8. \E lost \in {0, 1} : Cardinality(QueuedEvents') =
                    (Cardinality(QueuedEvents) - lost) + (IF rep.level = 3 THEN 1 ELSE 0)
    BY <1>2, <1>3, <1>4, <2>1, <2>3, <2>5
  <2> QED
    BY <1>2, <1>5, <2>1, <2>2, <2>7, <2>8
<1> QED
  BY <1>6, <1>7

(* A step that leaves the report queue alone.                              *)
LEMMA QueueKept ==
  ASSUME UNCHANGED reportVars
  PROVE  OutQueue' = OutQueue /\ QueuedEvents' = QueuedEvents
BY DEF reportVars, OutQueue, QueuedEvents, OutUsed, OutGap, OutNth

-----------------------------------------------------------------------------
(* What pop_done computes.                                                 *)

LEMMA AccumulatedStat ==
  ASSUME MgrTypeOK, NEW b \in 0 .. NBlocks - 1, NEW bytes \in Nat, NEW s,
         s = Accumulated(b, bytes)
  PROVE  /\ s \in Stats
         /\ s.frames = stat.frames + 1
         /\ s.results = stat.results + RES_PER_DESC
         /\ s.over = stat.over + (IF LevelOf(PeakMv(b)) = 3 THEN 1 ELSE 0)
         /\ Average(s) \in Nat
<1>1. stat \in Stats /\ cal_div \in Nat \ {0} /\ RES_PER_DESC \in Nat \ {0}
  BY MgrAssumption DEF MgrTypeOK
<1>2. /\ BlockSum(b) \in Nat /\ BlockMax(b) \in Nat /\ BlockMin(b) \in Nat /\ PeakMv(b) \in Nat
  BY <1>1, BlockStatistics, PeakType
<1>3. /\ s.frames = stat.frames + 1
      /\ s.results = stat.results + RES_PER_DESC
      /\ s.over = IF LevelOf(PeakMv(b)) = 3 THEN stat.over + 1 ELSE stat.over
      /\ s.sum = stat.sum + BlockSum(b)
  BY DEF Accumulated
<1>4. /\ stat.frames \in Nat /\ stat.bytes \in Nat /\ stat.results \in Nat /\ stat.sum \in Nat
      /\ stat.min \in Nat /\ stat.max \in Nat
      /\ stat.full \in Nat /\ stat.acc_mv \in Nat /\ stat.over \in Nat
  BY <1>1 DEF Stats
<1>5. Min2(stat.min, BlockMin(b)) \in Nat /\ Max2(stat.max, BlockMax(b)) \in Nat
  BY <1>2, <1>4 DEF Min2, Max2
<1>6. s \in Stats
  <2>1. (IF LevelOf(PeakMv(b)) = 3 THEN stat.over + 1 ELSE stat.over) \in Nat
    BY <1>4
  <2> QED
    BY <1>1, <1>2, <1>4, <1>5, <2>1 DEF Stats, Accumulated
<1>7. Average(s) \in Nat
  <2>1. s.sum \in Nat /\ s.results \in Nat \ {0}
    BY <1>1, <1>2, <1>3, <1>4
  <2> QED
    BY <2>1 DEF Average
<1>8. s.over = stat.over + (IF LevelOf(PeakMv(b)) = 3 THEN 1 ELSE 0)
  BY <1>3, <1>4
<1> QED
  BY <1>3, <1>6, <1>7, <1>8

LEMMA AvgRangeType == AVG_RANGE \in Nat \ {0}
BY SMT DEF AVG_RANGE

LEMMA ReportType ==
  ASSUME NEW chan \in 0 .. 15, NEW level \in Level, NEW seq \in Nat, NEW avg \in Nat
  PROVE  /\ Report(chan, level, seq, avg) \in ReportWords
         /\ Report(chan, level, seq, avg).level = level
<1>1. seq % 64 \in 0 .. 63
  OBVIOUS
<1>2. avg % AVG_RANGE \in 0 .. AVG_RANGE - 1
  BY AvgRangeType
<1> QED
  BY <1>1, <1>2 DEF Report, ReportWords

-----------------------------------------------------------------------------
(* Each action keeps the invariant.                                        *)

(* The engine's share of a step that touches the ring in no way but its    *)
(* mode, from outside the loop of pop_done to outside it.                  *)
LEMMA RingKept ==
  ASSUME RingInv, ChansOK, mode # "retire" => mode' # "retire", mode' # "retire" => mode # "retire",
         UNCHANGED <<ring, src_buf, res_buf, ring_head, ring_tail, hw_cursor,
                     hw_inflight, hw_res, irq>>
  PROVE  RingInv' /\ ChansOK' /\ Gap(ring_tail, hw_cursor)' = Gap(ring_tail, hw_cursor)
<1>1. RingTypeOK'
  BY DEF RingInv, RingTypeOK
<1>2. Agreement'
  BY DEF RingInv, Agreement, ring_used, Gap, Between
<1>3. StagedAsDescribed'
  BY DEF RingInv, StagedAsDescribed, InUse, Between, Gap
<1>4. NoLostInterrupt'
  BY DEF RingInv, NoLostInterrupt
<1> QED
  BY <1>1, <1>2, <1>3, <1>4 DEF RingInv, ChansOK, Gap

(* The conservation laws where neither report nor statistics move.         *)
LEMMA ReportsKept ==
  ASSUME ReportsConserved, UNCHANGED <<reportVars, level_count>>,
         stat'.frames = stat.frames, stat'.over = stat.over
  PROVE  ReportsConserved'
<1>1. OutQueue' = OutQueue /\ QueuedEvents' = QueuedEvents
  BY QueueKept
<1> QED
  BY <1>1 DEF ReportsConserved, HandedOn, reportVars

LEMMA MgrTypeKept ==
  ASSUME MgrTypeOK, UNCHANGED <<stat, cal_div, reportVars, summaryVars>>,
         hw_seq' \in Nat, mode' \in {"task", "retire", "drain"}
  PROVE  MgrTypeOK'
BY DEF MgrTypeOK, reportVars, summaryVars

LEMMA InitMgrInv == InitMgr => MgrInv
<1> SUFFICES ASSUME InitMgr PROVE MgrInv
  OBVIOUS
<1>1. RingInv
  BY InitInv DEF InitMgr
<1>2. ChansOK
  BY DEF InitMgr, InitRing, ChansOK, FreshDesc
<1>3. 0 \in OutSlot /\ 0 \in Slot
  BY OnTheQueue, OnTheRing DEF Circle
<1>4. MgrTypeOK
  <2>1. NoStat \in Stats
    BY DEF NoStat, Stats
  <2>2. EmptyReport \in ReportWords
    BY AvgRangeType DEF EmptyReport, ReportWords, Level
  <2> QED
    BY <1>3, <2>1, <2>2 DEF InitMgr, InitRing, MgrTypeOK
<1>5. FramesConserved
  BY <1>3, GapSelf, MgrAssumption DEF InitMgr, InitRing, FramesConserved, NoStat
<1>6. ReportsConserved
  <2>1. OutGap(out_tail, out_head) = 0
    BY <1>3, OnTheQueue, DistSelf DEF InitMgr
  <2>2. Len(OutQueue) = 0
    BY <2>1 DEF OutQueue
  <2>3. QueuedEvents = {}
    BY <1>3, <2>1, OutGapNat DEF QueuedEvents, OutUsed, InitMgr
  <2> QED
    BY <2>2, <2>3, FS_EmptySet DEF InitMgr, ReportsConserved, HandedOn, NoStat, Level
<1> QED
  BY <1>1, <1>2, <1>4, <1>5, <1>6 DEF MgrInv

LEMMA MgrSubmitInv ==
  ASSUME MgrInv, NEW j \in Job, Submit(j)
  PROVE  MgrInv'
<1>1. RingInv'
  <2>1. RingInv /\ submit(j)
    BY DEF MgrInv, Submit
  <2> QED
    BY <2>1, SubmitInv
<1>2. ChansOK'
  <2>1. j.chan \in 0 .. 15
    BY RingAssumption
  <2>2. ring_head \in Slot /\ ring'[ring_head].chan = j.chan
        /\ \A s \in Slot : s # ring_head => ring'[s] = ring[s]
    BY DEF MgrInv, RingInv, RingTypeOK, Submit, submit
  <2> QED
    BY <2>1, <2>2 DEF MgrInv, ChansOK
<1>3. MgrTypeOK'
  BY MgrTypeKept DEF MgrInv, Submit, submit, MgrTypeOK
<1>4. FramesConserved'
  BY DEF MgrInv, FramesConserved, Submit, submit, Gap
<1>5. ReportsConserved'
  BY ReportsKept DEF MgrInv, Submit, summaryVars
<1> QED
  BY <1>1, <1>2, <1>3, <1>4, <1>5 DEF MgrInv

LEMMA SubmitFullInv ==
  ASSUME MgrInv, SubmitFull
  PROVE  MgrInv'
<1>1. UNCHANGED ringVars
  BY DEF SubmitFull
<1>2. RingInv' /\ ChansOK' /\ Gap(ring_tail, hw_cursor)' = Gap(ring_tail, hw_cursor)
  BY <1>1, RingKept DEF MgrInv, ringVars
<1>3. stat \in Stats
  BY DEF MgrInv, MgrTypeOK
<1>4. stat' \in Stats /\ stat'.frames = stat.frames /\ stat'.results = stat.results
      /\ stat'.over = stat.over
  BY <1>3 DEF SubmitFull, Stats
<1>5. MgrTypeOK'
  BY <1>1, <1>4 DEF MgrInv, MgrTypeOK, SubmitFull, reportVars, summaryVars, ringVars
<1>6. FramesConserved'
  BY <1>2, <1>4 DEF MgrInv, FramesConserved, SubmitFull
<1>7. ReportsConserved'
  BY <1>4, ReportsKept DEF MgrInv, SubmitFull, summaryVars
<1> QED
  BY <1>2, <1>5, <1>6, <1>7 DEF MgrInv

LEMMA MgrTickInv ==
  ASSUME MgrInv, Tick
  PROVE  MgrInv'
<1>1. RingInv'
  BY TickInv DEF MgrInv, Tick
<1>2. ChansOK'
  BY DEF MgrInv, ChansOK, RingInv, RingTypeOK, Tick, accel_tick
<1>3. hw_seq \in Nat
  BY DEF MgrInv, MgrTypeOK
<1>4. MgrTypeOK'
  BY <1>3, MgrTypeKept DEF MgrInv, Tick, accel_tick, MgrTypeOK
<1>5. Gap(ring_tail, hw_cursor)' = Gap(ring_tail, hw_cursor) + 1
  <2>1. /\ ring_head \in Slot /\ ring_tail \in Slot /\ hw_cursor \in Slot
    BY DEF MgrInv, RingInv, RingTypeOK
  <2>2. /\ Gap(ring_tail, ring_head) = Gap(ring_tail, hw_cursor) + Gap(hw_cursor, ring_head)
        /\ Gap(hw_cursor, ring_head) # 0
    BY Positions DEF MgrInv, Tick, accel_tick
  <2>3. /\ Gap(ring_tail, ring_head) \in Nat /\ Gap(ring_tail, hw_cursor) \in Nat
        /\ Gap(hw_cursor, ring_head) \in Nat /\ Gap(ring_tail, ring_head) < RING_N
    BY <2>1, GapNat
  <2>4. Gap(ring_tail, Succ(hw_cursor)) = Gap(ring_tail, hw_cursor) + 1
    BY <2>1, <2>2, <2>3, GapGrows, RingAssumption
  <2> QED
    BY <2>4 DEF Tick, accel_tick
<1>6. FramesConserved'
  <2>1. Gap(ring_tail, hw_cursor) \in Nat /\ stat.frames \in Nat
    BY GapNat DEF MgrInv, RingInv, RingTypeOK, MgrTypeOK, Stats
  <2> QED
    BY <1>3, <1>5, <2>1 DEF MgrInv, FramesConserved, Tick
<1>7. ReportsConserved'
  BY ReportsKept DEF MgrInv, Tick, summaryVars
<1> QED
  BY <1>1, <1>2, <1>4, <1>6, <1>7 DEF MgrInv

(* The steps in and out of a loop: service_engine, the exits, and the      *)
(* start of drain_reports.                                                 *)
LEMMA LoopStepInv ==
  ASSUME MgrInv, Service \/ PopDoneExit \/ DrainReports \/ DrainExit
  PROVE  MgrInv'
<1>1. /\ UNCHANGED <<ring, ring_tail, hw_cursor, stat, cal_div, hw_seq, reportVars, summaryVars>>
      /\ mode' \in {"task", "retire", "drain"}
  BY DEF Service, service_engine, PopDoneExit, pop_done_exit, DrainReports, DrainExit
<1>2. RingInv'
  <2>1. CASE Service
    BY <2>1, ServiceInv DEF MgrInv, Service
  <2>2. CASE PopDoneExit
    BY <2>2, PopExitInv DEF MgrInv, PopDoneExit
  <2>3. CASE DrainReports \/ DrainExit
    BY <2>3, RingKept DEF MgrInv, DrainReports, DrainExit
  <2> QED
    BY <2>1, <2>2, <2>3
<1>3. ChansOK'
  BY <1>1 DEF MgrInv, ChansOK
<1>4. MgrTypeOK'
  BY <1>1, MgrTypeKept DEF MgrInv, MgrTypeOK
<1>5. FramesConserved'
  BY <1>1 DEF MgrInv, FramesConserved, Gap
<1>6. ReportsConserved'
  BY <1>1, ReportsKept DEF MgrInv, summaryVars
<1> QED
  BY <1>2, <1>3, <1>4, <1>5, <1>6 DEF MgrInv

LEMMA PopDoneInv ==
  ASSUME MgrInv, PopDone
  PROVE  MgrInv'
<1> DEFINE d == ring[ring_tail]
           b == res_buf[ring_tail]
           rep == Report(d.chan, LevelOf(PeakMv(b)), d.seq, Average(stat'))
<1>1. /\ ring_tail \in Slot /\ hw_cursor \in Slot /\ b \in 0 .. NBlocks - 1
      /\ d \in [chan : Nat, bytes : Nat, seq : Nat, status : Status]
      /\ d.chan \in 0 .. 15
  BY DEF MgrInv, RingInv, RingTypeOK, ChansOK
<1>2. d.seq \in Nat /\ d.status.bytes \in Nat
  BY <1>1 DEF Status
<1>3. MgrTypeOK
  BY DEF MgrInv
<1>4. /\ pop_done
      /\ stat' = Accumulated(b, d.status.bytes)
      /\ PushReport(rep)
      /\ cal_div' = IF stat'.frames % (RecalMask + 1) = 0
                    THEN 3800 + (Average(stat') % 512) ELSE cal_div
      /\ UNCHANGED <<hw_seq, summaryVars>>
  BY DEF PopDone
<1>5. /\ stat' \in Stats
      /\ stat'.frames = stat.frames + 1
      /\ stat'.results = stat.results + RES_PER_DESC
      /\ stat'.over = stat.over + (IF LevelOf(PeakMv(b)) = 3 THEN 1 ELSE 0)
      /\ Average(stat') \in Nat
  <2> DEFINE s == stat'
  <2> HIDE DEF s, b, d
  <2>1. s = Accumulated(b, d.status.bytes)
    BY <1>4 DEF s
  <2>2. /\ s \in Stats
        /\ s.frames = stat.frames + 1
        /\ s.results = stat.results + RES_PER_DESC
        /\ s.over = stat.over + (IF LevelOf(PeakMv(b)) = 3 THEN 1 ELSE 0)
        /\ Average(s) \in Nat
    BY <1>1, <1>2, <1>3, <2>1, AccumulatedStat
  <2> QED
    BY <2>2 DEF s, b
<1>6. rep \in ReportWords /\ rep.level = LevelOf(PeakMv(b))
  <2> DEFINE chan == d.chan
             level == LevelOf(PeakMv(b))
             seq == d.seq
             avg == Average(stat')
  <2>1. chan \in 0 .. 15 /\ level \in Level /\ seq \in Nat /\ avg \in Nat
    BY <1>1, <1>2, <1>3, <1>5, PeakType DEF MgrTypeOK
  <2>2. rep = Report(chan, level, seq, avg)
    OBVIOUS
  <2> HIDE DEF chan, level, seq, avg, rep
  <2>3. rep \in ReportWords /\ rep.level = level
    BY <2>1, <2>2, ReportType
  <2> QED
    BY <2>3 DEF level
<1>7. RingInv'
  BY <1>4, PopInv DEF MgrInv
<1>8. ChansOK'
  BY <1>1, <1>4 DEF MgrInv, ChansOK, RingInv, RingTypeOK, pop_done
<1> HIDE DEF rep, b, d
<1>9. MgrTypeOK'
  <2>1. out_ring' \in [OutSlot -> ReportWords] /\ out_head' \in OutSlot /\ out_tail' \in OutSlot
    BY <1>3, <1>4, <1>6, Pushed DEF Buffer
  <2>2. out_dropped' \in Nat
    BY <1>3, <1>4 DEF PushReport, MgrTypeOK
  <2>3. cal_div' \in Nat \ {0}
    <3>1. Average(stat') % 512 \in Nat
      BY <1>5
    <3>2. cal_div \in Nat \ {0}
      BY <1>3 DEF MgrTypeOK
    <3> QED
      BY <1>4, <3>1, <3>2
  <2>4. mode' = mode /\ UNCHANGED <<hw_seq, level_count, chan_mag, chan_events>>
    BY <1>4 DEF pop_done, summaryVars
  <2> QED
    BY <1>3, <1>5, <2>1, <2>2, <2>3, <2>4 DEF MgrTypeOK
<1>10. FramesConserved'
  <2>1. Gap(ring_tail, hw_cursor)' = Gap(ring_tail, hw_cursor) - 1
    <3>1. Gap(ring_tail, ring_tail) < Gap(ring_tail, hw_cursor) /\ Gap(ring_tail, ring_tail) = 0
      BY <1>1, <1>4, GapSelf DEF MgrInv, RingInv, Agreement, Between, pop_done, CanRetire
    <3>2. Gap(Succ(ring_tail), hw_cursor) = Gap(ring_tail, hw_cursor) - 1
      BY <1>1, <3>1, GapShrinks
    <3> QED
      BY <1>4, <3>2 DEF pop_done
  <2>2. Gap(ring_tail, hw_cursor) \in Nat
    BY <1>1, GapNat
  <2>3. /\ stat.frames \in Nat /\ stat.results \in Nat /\ RES_PER_DESC \in Nat
        /\ hw_seq = stat.frames + Gap(ring_tail, hw_cursor) /\ hw_seq' = hw_seq
        /\ stat.results = RES_PER_DESC * stat.frames
    BY <1>3, <1>4, MgrAssumption DEF MgrInv, MgrTypeOK, Stats, FramesConserved
  <2>4. hw_seq' = stat'.frames + Gap(ring_tail, hw_cursor)'
    <3> DEFINE gap == Gap(ring_tail, hw_cursor)
               gap2 == Gap(ring_tail, hw_cursor)'
    <3>1. gap \in Nat /\ gap2 = gap - 1 /\ hw_seq' = stat.frames + gap
      BY <2>1, <2>2, <2>3
    <3> HIDE DEF gap, gap2
    <3>2. hw_seq' = stat'.frames + gap2
      BY <1>5, <2>3, <3>1
    <3> QED
      BY <3>2 DEF gap2
  <2>5. RES_PER_DESC * (stat.frames + 1) = RES_PER_DESC * stat.frames + RES_PER_DESC
    BY <2>3
  <2> QED
    BY <1>5, <2>3, <2>4, <2>5 DEF FramesConserved
<1>11. ReportsConserved'
  <2> DEFINE len == Len(OutQueue)
             len2 == Len(OutQueue')
             events == Cardinality(QueuedEvents)
             events2 == Cardinality(QueuedEvents')
             event == IF LevelOf(PeakMv(b)) = 3 THEN 1 ELSE 0
  <2>1. event \in {0, 1} /\ (rep.level = 3 => event = 1) /\ (rep.level # 3 => event = 0)
    BY <1>6
  <2>2. /\ level_count[0] \in Nat /\ level_count[1] \in Nat
        /\ level_count[2] \in Nat /\ level_count[3] \in Nat
        /\ out_dropped \in Nat /\ stat.over \in Nat /\ stat.frames \in Nat
    BY <1>3 DEF MgrTypeOK, Level, Stats
  <2>3. /\ stat.frames = HandedOn + len + out_dropped
        /\ level_count[3] + events <= stat.over
        /\ stat.over <= level_count[3] + events + out_dropped
    BY DEF MgrInv, ReportsConserved
  <2>4. HandedOn' = HandedOn /\ HandedOn \in Nat /\ level_count' = level_count
    BY <1>4, <2>2 DEF HandedOn, summaryVars
  <2>5. /\ len \in Nat /\ events \in Nat
        /\ \/ out_dropped' = out_dropped /\ len2 = len + 1 /\ events2 = events + event
           \/ /\ out_dropped' = out_dropped + 1 /\ len2 = len
              /\ \E lost \in {0, 1} : events2 = (events - lost) + event
    BY <1>3, <1>4, <1>6, Pushed
  <2>6. stat'.frames = stat.frames + 1 /\ stat'.over = stat.over + event
    BY <1>5
  <2> HIDE DEF len, len2, events, events2, event
  <2>7. stat'.frames = HandedOn + len2 + out_dropped'
    BY <2>2, <2>3, <2>4, <2>5, <2>6
  <2>8. /\ level_count[3] + events2 <= stat'.over
        /\ stat'.over <= level_count[3] + events2 + out_dropped'
    BY <2>1, <2>2, <2>3, <2>5, <2>6
  <2> QED
    BY <2>4, <2>7, <2>8 DEF ReportsConserved, len2, events2
<1> QED
  BY <1>7, <1>8, <1>9, <1>10, <1>11 DEF MgrInv

(* What the drain loop does to the queue.                                  *)
LEMMA Drained ==
  ASSUME MgrTypeOK, DrainOne
  PROVE  /\ out_tail' \in OutSlot
         /\ Len(OutQueue) \in Nat /\ Cardinality(QueuedEvents) \in Nat
         /\ OutQueue # <<>> /\ OutQueue' = Tail(OutQueue)
         /\ Len(OutQueue') = Len(OutQueue) - 1
         /\ Cardinality(QueuedEvents') = Cardinality(QueuedEvents)
              - (IF out_ring[out_tail].level = 3 THEN 1 ELSE 0)
<1> DEFINE t == out_tail
           h == out_head
<1>1. out_ring \in Buffer /\ t \in OutSlot /\ h \in OutSlot /\ OutSucc(t) \in OutSlot
  BY OutSuccType DEF MgrTypeOK, Buffer
<1>2. /\ OutQueue = Contents(out_ring, t, h)
      /\ QueuedEvents = EventsIn(out_ring, t, h)
  BY QueueIsContents
<1>3. /\ OutQueue' = Contents(out_ring, OutSucc(t), h)
      /\ QueuedEvents' = EventsIn(out_ring, OutSucc(t), h)
  <2>1. (OutQueue = Contents(out_ring, out_tail, out_head)
         /\ QueuedEvents = EventsIn(out_ring, out_tail, out_head))'
    BY QueueIsContents, PTL
  <2>2. out_tail' = OutSucc(t) /\ out_head' = h /\ out_ring' = out_ring
    BY DEF DrainOne
  <2> QED
    BY <2>1, <2>2 DEF Contents, EventsIn, OutGap, OutNth
<1>4. OutGap(t, h) \in Nat /\ OutGap(t, h) > 0
  <2>1. OutGap(t, h) # OutGap(t, t)
    BY <1>1, OnTheQueue, DistInjective DEF DrainOne
  <2>2. OutGap(t, t) = 0
    BY <1>1, OnTheQueue, DistSelf
  <2> QED
    BY <1>1, <2>1, <2>2, OutGapNat
<1>5. /\ OutGap(OutSucc(t), h) = OutGap(t, h) - 1
      /\ Contents(out_ring, t, h) # <<>>
      /\ Contents(out_ring, OutSucc(t), h) = Tail(Contents(out_ring, t, h))
      /\ Cardinality(EventsIn(out_ring, OutSucc(t), h)) =
           Cardinality(EventsIn(out_ring, t, h)) - (IF out_ring[t].level = 3 THEN 1 ELSE 0)
  BY <1>1, <1>4, Taken
<1>6. /\ Len(Contents(out_ring, t, h)) = OutGap(t, h)
      /\ Len(Contents(out_ring, OutSucc(t), h)) = OutGap(OutSucc(t), h)
      /\ Cardinality(EventsIn(out_ring, t, h)) \in Nat
  BY <1>1, ContentsLen, EventsFinite
<1> QED
  BY <1>1, <1>2, <1>3, <1>4, <1>5, <1>6 DEF DrainOne

LEMMA DrainOneInv ==
  ASSUME MgrInv, DrainOne
  PROVE  MgrInv'
<1> DEFINE rep == out_ring[out_tail]
           chan == rep.chan % NCHAN
<1>1. MgrTypeOK
  BY DEF MgrInv
<1>2. /\ rep \in ReportWords /\ rep.level \in Level /\ rep.avg \in Nat
      /\ chan \in AppChannel
  <2>1. rep \in ReportWords
    BY <1>1 DEF MgrTypeOK
  <2>2. rep.level \in Level /\ rep.chan \in 0 .. 15 /\ rep.avg \in 0 .. AVG_RANGE - 1
    BY <2>1 DEF ReportWords
  <2>3. rep.chan \in Nat /\ NCHAN \in Nat \ {0}
    BY <2>2, MgrAssumption
  <2>4. chan \in AppChannel
    BY <2>3 DEF AppChannel
  <2> QED
    BY <2>1, <2>2, <2>4, AvgRangeType
<1>3. /\ level_count' = [level_count EXCEPT ![rep.level] = @ + 1]
      /\ chan_mag' = [chan_mag EXCEPT ![chan] = @ + rep.avg]
      /\ chan_events' = IF rep.level >= 2
                        THEN [chan_events EXCEPT ![chan] = @ + 1] ELSE chan_events
      /\ UNCHANGED <<ringVars, stat, cal_div, hw_seq, out_ring, out_head, out_dropped>>
  BY DEF DrainOne
<1>4. RingInv' /\ ChansOK' /\ Gap(ring_tail, hw_cursor)' = Gap(ring_tail, hw_cursor)
  BY <1>3, RingKept DEF MgrInv, ringVars
<1> HIDE DEF chan, rep
<1>5. MgrTypeOK'
  <2>1. out_tail' \in OutSlot
    BY <1>1, Drained
  <2>2. level_count' \in [Level -> Nat]
    BY <1>1, <1>2, <1>3 DEF MgrTypeOK
  <2>3. chan_mag' \in [AppChannel -> Nat]
    BY <1>1, <1>2, <1>3 DEF MgrTypeOK
  <2>4. chan_events' \in [AppChannel -> Nat]
    BY <1>1, <1>2, <1>3 DEF MgrTypeOK
  <2> QED
    BY <1>1, <1>3, <2>1, <2>2, <2>3, <2>4 DEF MgrTypeOK, ringVars
<1>6. FramesConserved'
  BY <1>3, <1>4 DEF MgrInv, FramesConserved
<1>7. ReportsConserved'
  <2> DEFINE len == Len(OutQueue)
             len2 == Len(OutQueue')
             events == Cardinality(QueuedEvents)
             events2 == Cardinality(QueuedEvents')
  <2>1. /\ level_count[0] \in Nat /\ level_count[1] \in Nat
        /\ level_count[2] \in Nat /\ level_count[3] \in Nat
        /\ out_dropped \in Nat /\ stat.over \in Nat /\ stat.frames \in Nat
    BY <1>1 DEF MgrTypeOK, Level, Stats
  <2>2. /\ stat.frames = HandedOn + len + out_dropped
        /\ level_count[3] + events <= stat.over
        /\ stat.over <= level_count[3] + events + out_dropped
    BY DEF MgrInv, ReportsConserved
  <2>3. /\ len \in Nat /\ events \in Nat /\ len2 = len - 1
        /\ events2 = events - (IF rep.level = 3 THEN 1 ELSE 0)
    BY <1>1, Drained DEF rep
  <2>4. /\ HandedOn' = HandedOn + 1 /\ HandedOn \in Nat
        /\ level_count'[3] = level_count[3] + (IF rep.level = 3 THEN 1 ELSE 0)
    <3>1. level_count \in [Level -> Nat] /\ rep.level \in Level
      BY <1>1, <1>2 DEF MgrTypeOK
    <3>2. \A l \in Level : level_count'[l] = IF l = rep.level THEN level_count[l] + 1 ELSE level_count[l]
      BY <1>3, <3>1
    <3>3. /\ level_count'[0] = IF 0 = rep.level THEN level_count[0] + 1 ELSE level_count[0]
          /\ level_count'[1] = IF 1 = rep.level THEN level_count[1] + 1 ELSE level_count[1]
          /\ level_count'[2] = IF 2 = rep.level THEN level_count[2] + 1 ELSE level_count[2]
          /\ level_count'[3] = IF 3 = rep.level THEN level_count[3] + 1 ELSE level_count[3]
      BY <3>2 DEF Level
    <3>4. rep.level = 0 \/ rep.level = 1 \/ rep.level = 2 \/ rep.level = 3
      BY <3>1 DEF Level
    <3> QED
      BY <2>1, <3>3, <3>4 DEF HandedOn
  <2>5. stat' = stat /\ out_dropped' = out_dropped
    BY <1>3
  <2> HIDE DEF len, len2, events, events2
  <2>6. stat.frames = HandedOn' + len2 + out_dropped
    BY <2>1, <2>2, <2>3, <2>4
  <2>7. /\ level_count'[3] + events2 <= stat.over
        /\ stat.over <= level_count'[3] + events2 + out_dropped
    BY <2>1, <2>2, <2>3, <2>4
  <2> QED
    BY <2>5, <2>6, <2>7 DEF ReportsConserved, len2, events2
<1> QED
  BY <1>4, <1>5, <1>6, <1>7 DEF MgrInv

LEMMA MgrKept ==
  ASSUME MgrInv, UNCHANGED mgrVars
  PROVE  MgrInv'
<1>1. UNCHANGED <<ringVars, stat, cal_div, hw_seq, reportVars, summaryVars>>
  BY DEF mgrVars
<1>2. RingInv' /\ ChansOK' /\ Gap(ring_tail, hw_cursor)' = Gap(ring_tail, hw_cursor)
  BY <1>1, RingKept DEF MgrInv, ringVars
<1>3. MgrTypeOK'
  BY <1>1, MgrTypeKept DEF MgrInv, MgrTypeOK, ringVars
<1>4. FramesConserved'
  BY <1>1, <1>2 DEF MgrInv, FramesConserved
<1>5. ReportsConserved'
  BY <1>1, ReportsKept DEF MgrInv, summaryVars
<1> QED
  BY <1>2, <1>3, <1>4, <1>5 DEF MgrInv

LEMMA MgrInvariant == MgrSpec => []MgrInv
<1>1. MgrInv /\ [MgrNext]_mgrVars => MgrInv'
  <2> SUFFICES ASSUME MgrInv, [MgrNext]_mgrVars PROVE MgrInv'
    OBVIOUS
  <2>1. ASSUME NEW j \in Job, Submit(j) PROVE MgrInv'
    BY <2>1, MgrSubmitInv
  <2>2. CASE SubmitFull
    BY <2>2, SubmitFullInv
  <2>3. CASE Tick
    BY <2>3, MgrTickInv
  <2>4. CASE Service \/ PopDoneExit \/ DrainReports \/ DrainExit
    BY <2>4, LoopStepInv
  <2>5. CASE PopDone
    BY <2>5, PopDoneInv
  <2>6. CASE DrainOne
    BY <2>6, DrainOneInv
  <2>7. CASE UNCHANGED mgrVars
    BY <2>7, MgrKept
  <2> QED
    BY <2>1, <2>2, <2>3, <2>4, <2>5, <2>6, <2>7 DEF MgrNext
<1> QED
  BY <1>1, InitMgrInv, PTL DEF MgrSpec

-----------------------------------------------------------------------------
(* Every counter, index and report word of the manager stays in its range; *)
(* the calibration divisor, by which a peak is divided, is never zero.     *)
THEOREM ManagerTyping == MgrSpec => []MgrTypeOK
<1>1. MgrInv => MgrTypeOK
  BY DEF MgrInv
<1> QED
  BY <1>1, MgrInvariant, PTL

(* The statistics count each frame the engine executed once, when it is    *)
(* retired, and all of its results.                                        *)
THEOREM NoFrameLost == MgrSpec => []FramesConserved
<1>1. MgrInv => FramesConserved
  BY DEF MgrInv
<1> QED
  BY <1>1, MgrInvariant, PTL

(* Each retired frame leaves one report: handed on, queued, or counted as  *)
(* dropped; and no event is lost but in a dropped report, and none made up.*)
THEOREM NoReportLost == MgrSpec => []ReportsConserved
<1>1. MgrInv => ReportsConserved
  BY DEF MgrInv
<1> QED
  BY <1>1, MgrInvariant, PTL

(* The report queue is first in, first out, and a report is given up only  *)
(* when the queue is full, only for a new one, and only the oldest.        *)
THEOREM OldestDropped == MgrSpec => DropsOldestOnly
<1> DEFINE Kept  == UNCHANGED <<OutQueue, out_dropped>> /\ stat'.frames = stat.frames
           Handed == /\ OutQueue # <<>> /\ OutQueue' = Tail(OutQueue)
                     /\ stat'.frames = stat.frames /\ UNCHANGED out_dropped
           Added == /\ stat'.frames = stat.frames + 1
                    /\ OutQueue' = Append(IF out_dropped' > out_dropped THEN Tail(OutQueue) ELSE OutQueue,
                                          Report(last'.chan, LevelOf(PeakMv(last'.block)),
                                                 last'.seq, Average(stat')))
                    /\ out_dropped' > out_dropped => Len(OutQueue) = OUT_N - 1
<1>1. MgrInv /\ [MgrNext]_mgrVars => [Kept \/ Handed \/ Added]_mgrVars
  <2> SUFFICES ASSUME MgrInv, MgrNext PROVE Kept \/ Handed \/ Added
    OBVIOUS
  <2>1. MgrTypeOK /\ stat \in Stats /\ out_dropped \in Nat
    BY DEF MgrInv, MgrTypeOK
  <2>2. ASSUME UNCHANGED reportVars, stat'.frames = stat.frames PROVE Kept
    BY <2>2, QueueKept DEF reportVars
  <2>3. ASSUME NEW j \in Job, Submit(j) PROVE Kept
    BY <2>2, <2>3 DEF Submit
  <2>4. CASE SubmitFull
    <3>1. stat'.frames = stat.frames
      BY <2>1, <2>4 DEF SubmitFull, Stats
    <3> QED
      BY <2>2, <2>4, <3>1 DEF SubmitFull
  <2>5. CASE Tick \/ Service \/ PopDoneExit \/ DrainReports \/ DrainExit
    BY <2>2, <2>5 DEF Tick, Service, PopDoneExit, DrainReports, DrainExit
  <2>6. CASE PopDone
    <3> DEFINE d == ring[ring_tail]
               b == res_buf[ring_tail]
               rep == Report(d.chan, LevelOf(PeakMv(b)), d.seq, Average(stat'))
               new == Report(last'.chan, LevelOf(PeakMv(last'.block)), last'.seq, Average(stat'))
    <3>1. rep = new /\ PushReport(rep)
      BY <2>6 DEF PopDone, pop_done
    <3>2. rep \in ReportWords
      <4>1. d.chan \in 0 .. 15 /\ d.seq \in Nat /\ d.status.bytes \in Nat
            /\ b \in 0 .. NBlocks - 1
        BY DEF MgrInv, RingInv, RingTypeOK, ChansOK, Status
      <4>2. Average(stat') \in Nat
        BY <2>1, <2>6, <4>1, AccumulatedStat DEF PopDone
      <4>3. LevelOf(PeakMv(b)) \in Level
        BY <2>1, <4>1, PeakType DEF MgrTypeOK
      <4> QED
        BY <4>1, <4>2, <4>3, ReportType
    <3>3. stat'.frames = stat.frames + 1
      BY <2>6 DEF PopDone, Accumulated
    <3> HIDE DEF rep, new
    <3>4. \/ out_dropped' = out_dropped /\ OutQueue' = Append(OutQueue, rep)
          \/ /\ out_dropped' = out_dropped + 1 /\ Len(OutQueue) = OUT_N - 1
             /\ OutQueue' = Append(Tail(OutQueue), rep)
      BY <2>1, <3>1, <3>2, Pushed
    <3>5. /\ OutQueue' = Append(IF out_dropped' > out_dropped THEN Tail(OutQueue) ELSE OutQueue, new)
          /\ out_dropped' > out_dropped => Len(OutQueue) = OUT_N - 1
      <4>1. CASE out_dropped' = out_dropped /\ OutQueue' = Append(OutQueue, rep)
        <5>1. ~(out_dropped' > out_dropped)
          BY <2>1, <4>1
        <5> QED
          BY <3>1, <4>1, <5>1
      <4>2. CASE /\ out_dropped' = out_dropped + 1 /\ Len(OutQueue) = OUT_N - 1
                 /\ OutQueue' = Append(Tail(OutQueue), rep)
        <5>1. out_dropped' > out_dropped
          BY <2>1, <4>2
        <5> QED
          BY <3>1, <4>2, <5>1
      <4> QED
        BY <3>4, <4>1, <4>2
    <3> QED
      BY <3>3, <3>5 DEF new
  <2>7. CASE DrainOne
    BY <2>1, <2>7, Drained DEF DrainOne
  <2> QED
    BY <2>3, <2>4, <2>5, <2>6, <2>7 DEF MgrNext
<1> QED
  BY <1>1, MgrInvariant, PTL DEF MgrSpec, DropsOldestOnly
=============================================================================
