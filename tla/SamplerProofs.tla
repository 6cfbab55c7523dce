--------------------------- MODULE SamplerProofs ---------------------------
(***************************************************************************)
(* The plugin bitwidth.c binds the right registers and counts what         *)
(* happened: proofs about module Sampler for every register width, program *)
(* and division into blocks, and about module Registers.                   *)
(***************************************************************************)
EXTENDS Sampler, Registers, DecodeProofs, FiniteSetTheorems

-----------------------------------------------------------------------------
(* Widths and counters.                                                    *)

LEMMA WidthType == W \in Nat /\ W > 0 /\ Width = 0 .. W
BY SamplerAssumption DEF W, Width

(* No value has more bits than a histogram row has columns: the negation   *)
(* of the most negative word included, 32 - clz is at most 32.             *)
LEMMA UnsignedWidth == \A v : effective_bits_unsigned(v) \in Width
<1> SUFFICES ASSUME NEW v
             PROVE  effective_bits_unsigned(v) \in Width
  OBVIOUS
<1> DEFINE P == {i \in 0 .. W - 1 : 2^i <= v}
<1>1. IsFiniteSet(0 .. W - 1) /\ Cardinality(0 .. W - 1) = W
  BY FS_Interval, WidthType
<1>2. P \in SUBSET (0 .. W - 1)
  OBVIOUS
<1>3. IsFiniteSet(P) /\ Cardinality(P) <= W
  BY <1>1, <1>2, FS_Subset
<1>4. Cardinality(P) \in Nat
  BY <1>3, FS_CardinalityType
<1>5. QED
  BY <1>3, <1>4, WidthType DEF effective_bits_unsigned

LEMMA SignedWidth == \A v : effective_bits_signed(v) \in Width
BY UnsignedWidth DEF effective_bits_signed

LEMMA OwnWidthType == \A di, r : OwnWidth(di, r) \in Width
BY UnsignedWidth, SignedWidth DEF OwnWidth

LEMMA BumpCount ==
  ASSUME NEW h \in Counts, NEW c \in InsnClass, NEW w \in Width
  PROVE  /\ Bump(h, c, w) \in Counts
         /\ \A c2 \in InsnClass, w2 \in Width :
              Bump(h, c, w)[c2][w2] = h[c2][w2] + IF c2 = c /\ w2 = w THEN 1 ELSE 0
BY DEF Counts, Bump

LEMMA CountType ==
  ASSUME NEW h \in Counts, NEW c \in InsnClass, NEW w \in Width
  PROVE  h[c][w] \in Nat
BY DEF Counts

-----------------------------------------------------------------------------
(* The plan of a block.                                                    *)

LEMMA DecodedType == \A i \in Insn : Decoded(i) \in DecodedInsn
BY DecodeInRange, SamplerAssumption DEF Decoded

LEMMA BlockType ==
  ASSUME NEW b \in Blocks
  PROVE  /\ b # <<>>
         /\ Len(b) \in Nat \ {0}
         /\ \A i \in 1 .. Len(b) : b[i] \in Insn
BY SamplerAssumption

LEMMA PlanEntries ==
  ASSUME NEW b \in Blocks, NEW i \in 1 .. Len(b)
  PROVE  /\ Plan(b)[i].own = Measured(b[i], {"compare", "store"})
         /\ i = 1 => Plan(b)[i].sample = NotTracked
         /\ i > 1 => Plan(b)[i].sample = Measured(b[i-1], {"writeback"})
BY BlockType DEF Plan

LEMMA Entries ==
  ASSUME NEW b \in Blocks, NEW i \in 1 .. Len(b)
  PROVE  /\ "sample" \in Registered(Plan(b), i) <=> Plan(b)[i].sample # NotTracked
         /\ "own" \in Registered(Plan(b), i) <=> Plan(b)[i].own # NotTracked
         /\ Registered(Plan(b), i) \subseteq {"sample", "own"}
BY DEF Registered

(* What is measured is a decoded instruction of the right kind.            *)
LEMMA MeasuredSample ==
  ASSUME NEW b \in Blocks, NEW i \in 1 .. Len(b), Plan(b)[i].sample # NotTracked
  PROVE  /\ i > 1
         /\ Plan(b)[i].sample = Decoded(b[i-1])
         /\ Decoded(b[i-1]).kind = "writeback"
         /\ Plan(b)[i].sample.cls \in WritebackClasses
<1>1. i > 1
  BY PlanEntries, BlockType
<1>2. b[i-1] \in Insn
  BY <1>1, BlockType
<1>3. Plan(b)[i].sample = Measured(b[i-1], {"writeback"})
  BY <1>1, PlanEntries
<1>4. Plan(b)[i].sample = Decoded(b[i-1]) /\ Decoded(b[i-1]).kind = "writeback"
  BY <1>3 DEF Measured
<1>5. Decoded(b[i-1]).cls \in WritebackClasses
  BY <1>2, <1>4, DecodedType DEF DecodedInsn, NotTracked
<1>6. QED
  BY <1>1, <1>4, <1>5

LEMMA MeasuredOwn ==
  ASSUME NEW b \in Blocks, NEW i \in 1 .. Len(b), Plan(b)[i].own # NotTracked
  PROVE  /\ Plan(b)[i].own = Decoded(b[i])
         /\ Decoded(b[i]).kind \in {"compare", "store"}
         /\ Plan(b)[i].own.cls \in CompareClasses \cup {"STR"}
<1>1. b[i] \in Insn
  BY BlockType
<1>2. Plan(b)[i].own = Measured(b[i], {"compare", "store"})
  BY PlanEntries
<1>3. Plan(b)[i].own = Decoded(b[i]) /\ Decoded(b[i]).kind \in {"compare", "store"}
  BY <1>2 DEF Measured
<1>4. Decoded(b[i]).cls \in CompareClasses \cup {"STR"}
  BY <1>1, <1>3, DecodedType DEF DecodedInsn, NotTracked
<1>5. QED
  BY <1>3, <1>4

LEMMA EffectType == \A i \in Insn : Effect[i] \in Effects
BY SamplerAssumption

-----------------------------------------------------------------------------
(* Type correctness.                                                       *)

(* Leaving an instruction keeps the position inside its block.             *)
LEMMA GoOnPosition ==
  ASSUME PositionOK, ReadyToExecute, GoOn, plan' = plan
  PROVE  PositionOK'
<1>1. block \in Blocks /\ at \in 1 .. Len(block) /\ plan[block] = Plan(block)
  BY DEF PositionOK, ReadyToExecute
<1>2. Len(block) \in Nat
  BY <1>1, BlockType
<1>3. CASE at < Len(block)
  <2>1. at' = at + 1 /\ block' = block /\ todo' = Registered(Plan(block), at + 1)
    BY <1>1, <1>3 DEF GoOn
  <2>2. at + 1 \in 1 .. Len(block)
    BY <1>1, <1>2, <1>3
  <2>3. QED
    BY <1>1, <2>1, <2>2 DEF PositionOK, ReadyToExecute
<1>4. CASE ~(at < Len(block))
  BY <1>4 DEF GoOn, PositionOK
<1>5. QED
  BY <1>3, <1>4

LEMMA CurrentType ==
  ASSUME PositionOK, ReadyToExecute
  PROVE  /\ block \in Blocks /\ at \in 1 .. Len(block)
         /\ Current \in Insn /\ Effect[Current] \in Effects
BY BlockType, EffectType DEF PositionOK, ReadyToExecute, Current

LEMMA InitType == Init => TypeOK
<1> SUFFICES ASSUME Init
             PROVE  TypeOK
  OBVIOUS
<1>1. PlanOK
  BY DEF Init, PlanOK
<1>2. Zero \in Counts
  BY WidthType DEF Zero, Counts
<1>3. regs \in [Reg -> Word]
  BY SamplerAssumption DEF Init
<1>4. QED
  BY <1>1, <1>2, <1>3, SamplerAssumption DEF Init, TypeOK, CountsOK, PositionOK

(* Every step keeps the types, whatever the program: the classes and       *)
(* registers the decoder can answer index the tables within bounds.        *)
LEMMA NextType == TypeOK /\ [Next]_vars => TypeOK'
<1> SUFFICES ASSUME TypeOK, [Next]_vars
             PROVE  TypeOK'
  OBVIOUS
<1> USE DEF TypeOK
<1>1. ASSUME NEW b \in Blocks, vcpu_tb_trans(b)
      PROVE  TypeOK'
  <2>1. PlanOK'
    BY <1>1 DEF vcpu_tb_trans, PlanOK
  <2>2. PositionOK' /\ CountsOK'
    BY <1>1 DEF vcpu_tb_trans, PositionOK, CountsOK
  <2>3. QED
    BY <1>1, <2>1, <2>2 DEF vcpu_tb_trans
<1>2. ASSUME NEW b \in Blocks, EnterBlock(b)
      PROVE  TypeOK'
  <2>1. Len(b) \in Nat \ {0} /\ b # <<>>
    BY BlockType
  <2>2. PlanOK' /\ CountsOK'
    BY <1>2 DEF EnterBlock, PlanOK, CountsOK
  <2>3. plan[b] = Plan(b)
    BY <1>2 DEF EnterBlock, PlanOK
  <2>4. PositionOK'
    BY <1>2, <2>1, <2>3 DEF EnterBlock, PositionOK
  <2>5. QED
    BY <1>2, <2>2, <2>4, SamplerAssumption DEF EnterBlock
<1>3. CASE cb_sample_writeback
  <2>1. block \in Blocks /\ at \in 1 .. Len(block) /\ plan[block] = Plan(block)
        /\ "sample" \in Registered(Plan(block), at)
    BY <1>3 DEF cb_sample_writeback, PositionOK
  <2>2. plan[block][at].sample.cls \in InsnClass
    BY <2>1, Entries, MeasuredSample DEF InsnClass
  <2>3. CountsOK'
    BY <1>3, <2>2, BumpCount, SignedWidth DEF cb_sample_writeback, CountsOK
  <2>4. PositionOK' /\ PlanOK'
    BY <1>3 DEF cb_sample_writeback, PositionOK, PlanOK
  <2>5. QED
    BY <1>3, <2>3, <2>4 DEF cb_sample_writeback
<1>4. CASE cb_compare_or_store
  <2>1. block \in Blocks /\ at \in 1 .. Len(block) /\ plan[block] = Plan(block)
        /\ "own" \in Registered(Plan(block), at)
    BY <1>4 DEF cb_compare_or_store, PositionOK
  <2>2. plan[block][at].own.cls \in InsnClass
    BY <2>1, Entries, MeasuredOwn DEF InsnClass
  <2>3. CountsOK'
    BY <1>4, <2>2, BumpCount, OwnWidthType DEF cb_compare_or_store, CountsOK
  <2>4. PositionOK' /\ PlanOK'
    BY <1>4 DEF cb_compare_or_store, PositionOK, PlanOK
  <2>5. QED
    BY <1>4, <2>3, <2>4 DEF cb_compare_or_store
<1>5. ASSUME NEW v \in Results, CompleteWrite(v)
      PROVE  TypeOK'
  <2> DEFINE e == Effect[Current]
  <2>1. ReadyToExecute /\ GoOn /\ plan' = plan /\ e.kind = "write"
    BY <1>5 DEF CompleteWrite
  <2>2. e \in Effects
    BY <2>1, CurrentType
  <2>3. e.cls \in WritebackClasses \cup {"none"} /\ e.dest \in Reg
    BY <2>1, <2>2 DEF Effects
  <2>4. regs' \in [Reg -> Word]
    BY <1>5, <2>3, SamplerAssumption DEF CompleteWrite
  <2>5. e.cls # "none" => e.cls \in InsnClass
    BY <2>3 DEF InsnClass
  <2>6. CountsOK'
    BY <1>5, <2>5, BumpCount, SignedWidth DEF CompleteWrite, CountsOK
  <2>7. PositionOK'
    BY <2>1, GoOnPosition
  <2>8. QED
    BY <1>5, <2>4, <2>6, <2>7 DEF CompleteWrite, PlanOK
<1>6. CASE CompleteOther
  <2> DEFINE e == Effect[Current]
  <2>1. ReadyToExecute /\ GoOn /\ plan' = plan
    BY <1>6 DEF CompleteOther
  <2>2. e \in Effects
    BY <2>1, CurrentType
  <2>3. (e.kind = "compare" => e.cls \in InsnClass) /\ "STR" \in InsnClass
    BY <2>2 DEF Effects, InsnClass
  <2>4. truth' \in Counts /\ lost' \in Counts
    <3>1. \A h \in Counts : BumpDone(h, e) \in Counts
      BY <2>3, BumpCount, SignedWidth, UnsignedWidth DEF BumpDone
    <3> QED
      BY <1>6, <3>1 DEF CompleteOther, CountsOK
  <2>5. PositionOK'
    BY <2>1, GoOnPosition
  <2>6. QED
    BY <1>6, <2>4, <2>5 DEF CompleteOther, PlanOK, CountsOK
<1>7. CASE Skip
  <2>1. PositionOK'
    BY <1>7, GoOnPosition DEF Skip
  <2>2. QED
    BY <1>7, <2>1 DEF Skip, PlanOK, CountsOK
<1>8. CASE Trap
  BY <1>8 DEF Trap, PlanOK, CountsOK, PositionOK
<1>9. CASE plugin_exit
  BY <1>9 DEF plugin_exit, PlanOK, CountsOK, PositionOK
<1>10. CASE UNCHANGED vars
  BY <1>10 DEF vars, PlanOK, CountsOK, PositionOK
<1>11. QED
  BY <1>1, <1>2, <1>3, <1>4, <1>5, <1>6, <1>7, <1>8, <1>9, <1>10 DEF Next

(* The histogram is only ever counted up inside its rows and columns, and  *)
(* a callback only runs on the instruction vcpu_tb_trans put it on.        *)
THEOREM Typing == Spec => []TypeOK
BY InitType, NextType, PTL DEF Spec

-----------------------------------------------------------------------------
(* The accounting of results.                                              *)

(* What the plan of an exact program says of an instruction's effect.      *)
LEMMA ExactEffect ==
  ASSUME ExactProgram, NEW i \in Insn
  PROVE  /\ Effect[i].kind = "write" /\ Effect[i].cls # "none" =>
              Decoded(i) = Writeback(Effect[i].cls, Effect[i].dest)
         /\ Effect[i].kind = "write" /\ Effect[i].cls = "none" => Decoded(i) = NotTracked
         /\ Effect[i].kind = "compare" =>
              Decoded(i) = Compare(Effect[i].cls, Effect[i].rn,
                             IF Effect[i].rm >= 0 THEN RegOperand(Effect[i].rm)
                                                  ELSE ImmOperand(Effect[i].imm))
         /\ Effect[i].kind = "store" => Decoded(i) = Store(Effect[i].rt, Effect[i].size)
         /\ Effect[i].kind = "none" => Decoded(i) = NotTracked
BY DEF ExactProgram, Faithful

(* Between blocks, and before the callbacks of an instruction, nothing is  *)
(* counted ahead; only a fresh write-back is owed.                         *)
LEMMA NothingAhead ==
  ASSUME NEW c, NEW w,
         block = <<>> \/ plan[block][at].own = NotTracked \/ "own" \in todo
  PROVE  Ahead(c, w) = 0
BY DEF Ahead

LEMMA NothingOwed ==
  ASSUME NEW c, NEW w, "sample" \notin todo
  PROVE  Owed(c, w) = 0
BY DEF Owed

(* After an instruction has completed, the next one has nothing counted    *)
(* ahead, and owes the result exactly if the one completed is sampled.     *)
LEMMA AfterGoOn ==
  ASSUME PositionOK, ReadyToExecute, GoOn, plan' = plan, NEW c, NEW w
  PROVE  /\ Ahead(c, w)' = 0
         /\ (at = Len(block) \/ Decoded(Current).kind # "writeback") => Owed(c, w)' = 0
         /\ (at < Len(block) /\ Decoded(Current).kind = "writeback") =>
              Owed(c, w)' = IF /\ Decoded(Current).reg_a \in BoundRegs
                               /\ Decoded(Current).cls = c
                               /\ effective_bits_signed(regs'[Decoded(Current).reg_a]) = w
                            THEN 1 ELSE 0
<1>1. /\ block \in Blocks /\ at \in 1 .. Len(block) /\ plan[block] = Plan(block)
      /\ Len(block) \in Nat
  BY BlockType DEF PositionOK, ReadyToExecute
<1>2. CASE at < Len(block)
  <2>1. /\ at' = at + 1 /\ block' = block /\ todo' = Registered(Plan(block), at + 1)
        /\ at + 1 \in 1 .. Len(block) /\ plan'[block'] = Plan(block)
    BY <1>1, <1>2 DEF GoOn
  <2>2. /\ "sample" \in todo' <=> Plan(block)[at + 1].sample # NotTracked
        /\ "own" \in todo' <=> Plan(block)[at + 1].own # NotTracked
    <3> DEFINE n == at + 1
    <3>1. n \in 1 .. Len(block) /\ todo' = Registered(Plan(block), n)
      BY <2>1
    <3> HIDE DEF n
    <3>2. /\ "sample" \in todo' <=> Plan(block)[n].sample # NotTracked
          /\ "own" \in todo' <=> Plan(block)[n].own # NotTracked
      BY <1>1, <3>1, Entries
    <3>3. QED
      BY <3>2 DEF n
  <2>3. Plan(block)[at + 1].sample = Measured(Current, {"writeback"})
    BY <1>1, <2>1, PlanEntries DEF Current
  <2>4. Ahead(c, w)' = 0
    BY <2>1, <2>2 DEF Ahead
  <2>5. CASE Decoded(Current).kind = "writeback"
    <3>1. Plan(block)[at + 1].sample = Decoded(Current) /\ Decoded(Current) # NotTracked
      BY <2>3, <2>5 DEF Measured, NotTracked
    <3>2. "sample" \in todo'
      BY <3>1, <2>2
    <3>3. QED
      BY <1>2, <2>1, <2>4, <2>5, <3>1, <3>2 DEF Owed
  <2>6. CASE Decoded(Current).kind # "writeback"
    <3>1. Plan(block)[at + 1].sample = NotTracked
      BY <2>3, <2>6 DEF Measured
    <3>2. "sample" \notin todo'
      BY <3>1, <2>2
    <3>3. QED
      BY <2>4, <2>6, <3>2 DEF Owed
  <2>7. QED
    BY <2>5, <2>6
<1>3. CASE at = Len(block)
  <2>1. block' = <<>> /\ todo' = {}
    BY <1>1, <1>3 DEF GoOn
  <2>2. QED
    BY <1>1, <1>3, <2>1 DEF Ahead, Owed
<1>4. QED
  BY <1>1, <1>2, <1>3

LEMMA InitAccounting == Init => Accounting
BY DEF Init, Accounting, Zero, Ahead, Owed

(* The two halves of the accounting of one cell.                           *)
Balanced(c, w) == truth[c][w] + Ahead(c, w) = hist[c][w] + lost[c][w] + Owed(c, w)

LEMMA CellTypes ==
  ASSUME CountsOK, NEW c \in InsnClass, NEW w \in Width
  PROVE  /\ truth[c][w] \in Nat /\ hist[c][w] \in Nat /\ lost[c][w] \in Nat
         /\ Ahead(c, w) \in {0, 1} /\ Owed(c, w) \in {0, 1}
BY CountType DEF CountsOK, Ahead, Owed

(* A compare or store that its callback has counted ahead, if the callback *)
(* could, and that now happens.                                            *)
LEMMA OneCounted ==
  ASSUME CountsOK, NEW c \in InsnClass, NEW w \in Width, Balanced(c, w),
         NEW k \in InsnClass, NEW n \in Width, NEW missed \in BOOLEAN,
         Ahead(c, w) = IF ~missed /\ c = k /\ w = n THEN 1 ELSE 0,
         truth' = Bump(truth, k, n),
         lost' = IF missed THEN Bump(lost, k, n) ELSE lost, hist' = hist,
         Owed(c, w) = 0, Owed(c, w)' = 0, Ahead(c, w)' = 0
  PROVE  Balanced(c, w)'
<1>1. /\ truth[c][w] \in Nat /\ hist[c][w] \in Nat /\ lost[c][w] \in Nat
  BY CellTypes
<1>2. truth'[c][w] = truth[c][w] + IF c = k /\ w = n THEN 1 ELSE 0
  BY BumpCount DEF CountsOK
<1>3. lost'[c][w] = lost[c][w] + IF missed /\ c = k /\ w = n THEN 1 ELSE 0
  BY <1>1, BumpCount DEF CountsOK
<1> QED
  BY <1>1, <1>2, <1>3 DEF Balanced

LEMMA NextAccounting ==
  ExactProgram /\ TypeOK /\ TypeOK' /\ Accounting /\ [Next]_vars => Accounting'
<1> SUFFICES ASSUME ExactProgram, TypeOK, TypeOK', Accounting, [Next]_vars,
                    NEW c \in InsnClass, NEW w \in Width
             PROVE  Balanced(c, w)'
  BY DEF Accounting, Balanced
<1>a. Balanced(c, w) /\ CountsOK /\ PositionOK /\ PlanOK
  BY DEF Accounting, Balanced, TypeOK
<1>b. /\ truth[c][w] \in Nat /\ hist[c][w] \in Nat /\ lost[c][w] \in Nat
      /\ Ahead(c, w) \in {0, 1} /\ Owed(c, w) \in {0, 1}
  BY <1>a, CellTypes
<1>1. ASSUME NEW b \in Blocks, vcpu_tb_trans(b)
      PROVE  Balanced(c, w)'
  <2>1. block = <<>> /\ todo = {} /\ block' = <<>> /\ todo' = {}
    BY <1>1, <1>a DEF vcpu_tb_trans, PositionOK
  <2>2. Ahead(c, w) = 0 /\ Ahead(c, w)' = 0 /\ Owed(c, w) = 0 /\ Owed(c, w)' = 0
    BY <2>1 DEF Ahead, Owed
  <2>3. QED
    BY <1>1, <1>a, <2>2 DEF vcpu_tb_trans, Balanced
<1>2. ASSUME NEW b \in Blocks, EnterBlock(b)
      PROVE  Balanced(c, w)'
  <2>1. /\ block = <<>> /\ todo = {}
        /\ block' = b /\ at' = 1 /\ plan' = plan /\ plan[b] = Plan(b)
        /\ todo' = Registered(Plan(b), 1)
    BY <1>2, <1>a DEF EnterBlock, PositionOK, PlanOK
  <2>2. 1 \in 1 .. Len(b)
    BY BlockType
  <2>3. Plan(b)[1].sample = NotTracked
    BY <2>2, PlanEntries
  <2>4. "sample" \notin todo' /\ ("own" \in todo' <=> Plan(b)[1].own # NotTracked)
    BY <2>1, <2>2, <2>3, Entries
  <2>5. Ahead(c, w) = 0 /\ Ahead(c, w)' = 0 /\ Owed(c, w) = 0 /\ Owed(c, w)' = 0
    BY <2>1, <2>4 DEF Ahead, Owed
  <2>6. QED
    BY <1>2, <1>a, <2>5 DEF EnterBlock, Balanced
<1>3. CASE cb_sample_writeback
  <2> DEFINE pw == plan[block][at].sample
             v  == effective_bits_signed(regs[pw.reg_a])
  <2>1. block \in Blocks /\ at \in 1 .. Len(block) /\ plan[block] = Plan(block)
        /\ "sample" \in Registered(Plan(block), at)
    BY <1>3, <1>a DEF cb_sample_writeback, PositionOK
  <2>2. /\ pw = Decoded(block[at-1]) /\ pw.cls \in InsnClass
        /\ block[at-1] \in Insn /\ Decoded(block[at-1]).kind = "writeback"
    BY <2>1, Entries, MeasuredSample, BlockType DEF InsnClass
  <2>4. UNCHANGED <<lost, truth>>
    BY <1>3 DEF cb_sample_writeback
  <2>5. hist'[c][w] =
          hist[c][w] + IF pw.reg_a \in BoundRegs /\ c = pw.cls /\ w = v THEN 1 ELSE 0
    <3>1. CASE pw.reg_a \in BoundRegs
      <4>1. hist' = Bump(hist, pw.cls, v)
        BY <1>3, <3>1 DEF cb_sample_writeback
      <4> QED
        BY <1>a, <2>2, <3>1, <4>1, BumpCount, SignedWidth DEF CountsOK
    <3>2. CASE pw.reg_a \notin BoundRegs
      BY <1>3, <1>b, <3>2 DEF cb_sample_writeback
    <3> QED
      BY <3>1, <3>2
  <2>6. /\ Owed(c, w) = IF pw.reg_a \in BoundRegs /\ c = pw.cls /\ w = v THEN 1 ELSE 0
        /\ Owed(c, w)' = 0
    BY <1>3 DEF cb_sample_writeback, Owed
  <2>7. Ahead(c, w)' = Ahead(c, w)
    BY <1>3 DEF cb_sample_writeback, Ahead
  <2>8. QED
    BY <1>a, <1>b, <2>4, <2>5, <2>6, <2>7 DEF Balanced
<1>4. CASE cb_compare_or_store
  <2> DEFINE di == plan[block][at].own
             v  == OwnWidth(di, regs)
  <2>1. block \in Blocks /\ at \in 1 .. Len(block) /\ plan[block] = Plan(block)
        /\ "own" \in Registered(Plan(block), at) /\ block # <<>>
    BY <1>4, <1>a, BlockType DEF cb_compare_or_store, PositionOK
  <2>2. /\ di # NotTracked /\ di = Decoded(block[at]) /\ di.cls \in InsnClass
        /\ block[at] \in Insn /\ Decoded(block[at]).kind \in {"compare", "store"}
    BY <2>1, Entries, MeasuredOwn, BlockType DEF InsnClass
  <2>4. UNCHANGED <<lost, truth>>
    BY <1>4 DEF cb_compare_or_store
  <2>5. hist'[c][w] = hist[c][w] +
          IF Operands(di) \subseteq BoundRegs /\ c = di.cls /\ w = v THEN 1 ELSE 0
    <3>1. CASE Operands(di) \subseteq BoundRegs
      <4>1. hist' = Bump(hist, di.cls, v)
        BY <1>4, <3>1 DEF cb_compare_or_store
      <4> QED
        BY <1>a, <2>2, <3>1, <4>1, BumpCount, OwnWidthType DEF CountsOK
    <3>2. CASE ~(Operands(di) \subseteq BoundRegs)
      BY <1>4, <1>b, <3>2 DEF cb_compare_or_store
    <3> QED
      BY <3>1, <3>2
  <2>6. /\ Ahead(c, w) = 0
        /\ Ahead(c, w)' =
             IF Operands(di) \subseteq BoundRegs /\ c = di.cls /\ w = v THEN 1 ELSE 0
    BY <1>4, <2>1, <2>2 DEF cb_compare_or_store, Ahead
  <2>7. Owed(c, w) = 0 /\ Owed(c, w)' = 0
    BY <1>4 DEF cb_compare_or_store, Owed
  <2>8. QED
    BY <1>a, <1>b, <2>4, <2>5, <2>6, <2>7 DEF Balanced
<1>5. ASSUME NEW v \in Results, CompleteWrite(v)
      PROVE  Balanced(c, w)'
  <2> DEFINE e == Effect[Current]
             n == effective_bits_signed(v)
  <2>1. /\ ReadyToExecute /\ GoOn /\ plan' = plan /\ hist' = hist
        /\ e.kind = "write" /\ regs' = [regs EXCEPT ![e.dest] = v]
        /\ truth' = IF e.cls # "none" THEN Bump(truth, e.cls, n) ELSE truth
        /\ lost' = IF e.cls # "none" /\ (at = Len(block) \/ e.dest \notin BoundRegs)
                   THEN Bump(lost, e.cls, n) ELSE lost
    BY <1>5 DEF CompleteWrite, BeyondReach
  <2>2. /\ Current \in Insn /\ e \in Effects
        /\ block \in Blocks /\ at \in 1 .. Len(block) /\ Len(block) \in Nat
    BY <2>1, <1>a, CurrentType, BlockType
  <2>3. /\ e.cls \in WritebackClasses \cup {"none"} /\ e.dest \in Reg
    BY <2>1, <2>2 DEF Effects
  <2>4. regs'[e.dest] = v
    BY <2>1, <2>3 DEF TypeOK
  <2>5. Ahead(c, w) = 0 /\ Owed(c, w) = 0
    <3>1. Decoded(Current).kind \notin {"compare", "store"}
      BY <2>1, <2>2, ExactEffect DEF Writeback, NotTracked
    <3>2. plan[block][at].own = NotTracked
      BY <2>1, <2>2, <1>a, <3>1, MeasuredOwn DEF PositionOK, ReadyToExecute, Current
    <3>3. QED
      BY <2>1, <3>2, NothingAhead, NothingOwed DEF ReadyToExecute
  <2>6. CASE e.cls = "none"
    <3>1. Decoded(Current) = NotTracked
      BY <2>1, <2>2, <2>6, ExactEffect
    <3>2. Ahead(c, w)' = 0 /\ Owed(c, w)' = 0
      BY <2>1, <1>a, <3>1, AfterGoOn DEF NotTracked
    <3>3. QED
      BY <2>1, <2>5, <2>6, <3>2, <1>a DEF Balanced
  <2>7. CASE e.cls # "none"
    <3>1. Decoded(Current) = Writeback(e.cls, e.dest) /\ e.cls \in InsnClass
      BY <2>1, <2>2, <2>3, <2>7, ExactEffect DEF InsnClass
    <3>2. truth'[c][w] = truth[c][w] + IF c = e.cls /\ w = n THEN 1 ELSE 0
      BY <1>a, <2>1, <2>7, <3>1, BumpCount, SignedWidth DEF CountsOK
    <3>3. Ahead(c, w)' = 0
      BY <2>1, <1>a, AfterGoOn
    <3>4. CASE at = Len(block)
      <4>1. lost'[c][w] = lost[c][w] + IF c = e.cls /\ w = n THEN 1 ELSE 0
        BY <1>a, <2>1, <2>7, <3>1, <3>4, BumpCount, SignedWidth DEF CountsOK
      <4>2. Owed(c, w)' = 0
        BY <2>1, <1>a, <3>4, AfterGoOn
      <4>3. QED
        BY <2>1, <2>5, <3>2, <3>3, <4>1, <4>2, <1>a, <1>b DEF Balanced
    <3>5. CASE at < Len(block)
      <4>1. lost'[c][w] =
              lost[c][w] + IF e.dest \notin BoundRegs /\ c = e.cls /\ w = n THEN 1 ELSE 0
        BY <1>a, <1>b, <2>1, <2>2, <2>7, <3>1, <3>5, BumpCount, SignedWidth DEF CountsOK
      <4>2. Owed(c, w)' = IF e.dest \in BoundRegs /\ c = e.cls /\ w = n THEN 1 ELSE 0
        BY <2>1, <2>4, <1>a, <3>1, <3>5, AfterGoOn DEF Writeback
      <4>3. QED
        BY <2>1, <2>5, <3>2, <3>3, <4>1, <4>2, <1>a, <1>b DEF Balanced
    <3>6. QED
      BY <2>2, <3>4, <3>5
  <2>8. QED
    BY <2>6, <2>7
<1>6. CASE CompleteOther
  <2> DEFINE e == Effect[Current]
  <2>1. /\ ReadyToExecute /\ GoOn /\ plan' = plan /\ e.kind # "write"
        /\ UNCHANGED <<hist, regs>>
        /\ truth' = BumpDone(truth, e)
        /\ lost' = IF BeyondReach(e) THEN BumpDone(lost, e) ELSE lost
    BY <1>6 DEF CompleteOther
  <2>2. /\ Current \in Insn /\ e \in Effects
        /\ block \in Blocks /\ at \in 1 .. Len(block) /\ block # <<>>
        /\ plan[block] = Plan(block) /\ Current = block[at]
    BY <2>1, <1>a, CurrentType DEF PositionOK, ReadyToExecute, Current
  <2>3. Decoded(Current).kind # "writeback"
    BY <2>1, <2>2, ExactEffect DEF Effects, Compare, Store, NotTracked
  <2>4. Owed(c, w) = 0 /\ Owed(c, w)' = 0 /\ Ahead(c, w)' = 0
    BY <2>1, <2>3, <1>a, AfterGoOn, NothingOwed DEF ReadyToExecute
  <2>5. plan[block][at].own = Measured(Current, {"compare", "store"})
    BY <2>2, PlanEntries
  <2>6. CASE e.kind = "compare"
    <3> DEFINE n == effective_bits_signed(ArchCompare(e))
    <3>1. Decoded(Current) = Compare(e.cls, e.rn,
            IF e.rm >= 0 THEN RegOperand(e.rm) ELSE ImmOperand(e.imm))
      BY <2>2, <2>6, ExactEffect
    <3>2. e.cls \in CompareClasses /\ e.rn \in Reg /\ e.rm \in Reg \cup {-1}
      BY <2>2, <2>6 DEF Effects
    <3>3. plan[block][at].own = Decoded(Current) /\ Decoded(Current) # NotTracked
          /\ Decoded(Current).cls = e.cls
      BY <2>5, <3>1 DEF Measured, Compare, NotTracked
    <3>4. OwnWidth(Decoded(Current), regs) = n
      <4>1. CASE e.rm >= 0
        <5>1. Decoded(Current).reg_a = e.rn /\ Decoded(Current).reg_b = e.rm
              /\ Decoded(Current).kind = "compare"
          BY <3>1, <4>1 DEF Compare, RegOperand
        <5>2. Shifted(regs[e.rm], e.shift) = regs[e.rm]
          BY <2>2, <2>6 DEF ExactProgram, Shifted
        <5>3. QED
          BY <3>3, <4>1, <5>1, <5>2 DEF OwnWidth, ArchCompare
      <4>2. CASE ~(e.rm >= 0)
        <5>1. /\ Decoded(Current).reg_a = e.rn /\ Decoded(Current).reg_b = -1
              /\ Decoded(Current).imm_b = e.imm /\ Decoded(Current).kind = "compare"
          BY <3>1, <4>2 DEF Compare, ImmOperand
        <5>2. QED
          BY <3>3, <4>2, <5>1 DEF OwnWidth, ArchCompare
      <4>3. QED
        BY <4>1, <4>2
    <3>5. BeyondReach(e) <=> ~(Operands(Decoded(Current)) \subseteq BoundRegs)
      <4>1. BeyondReach(e) <=> ~({e.rn, e.rm} \subseteq BoundRegs \cup {-1})
        BY <2>6 DEF BeyondReach
      <4>2. Reg \subseteq Nat /\ e.rn # -1
        BY <3>2, SamplerAssumption
      <4>3. CASE e.rm >= 0
        <5>1. Operands(Decoded(Current)) = {e.rn, e.rm} /\ e.rm # -1
          BY <3>1, <4>3 DEF Compare, RegOperand, Operands
        <5> QED
          BY <4>1, <4>2, <5>1
      <4>4. CASE ~(e.rm >= 0)
        <5>1. e.rm = -1
          <6>1. e.rm \in Nat => e.rm >= 0
            OBVIOUS
          <6> QED
            BY <3>2, <4>2, <4>4, <6>1
        <5>2. Decoded(Current).reg_a = e.rn /\ Decoded(Current).reg_b = -1
          BY <3>1, <4>4 DEF Compare, ImmOperand
        <5>3. Operands(Decoded(Current)) = {e.rn}
          BY <5>2 DEF Operands
        <5> QED
          BY <4>1, <4>2, <5>1, <5>3
      <4> QED
        BY <4>3, <4>4
    <3>6. Ahead(c, w) = IF ~BeyondReach(e) /\ c = e.cls /\ w = n THEN 1 ELSE 0
      BY <2>1, <2>2, <3>3, <3>4, <3>5 DEF Ahead, ReadyToExecute
    <3>7. /\ truth' = Bump(truth, e.cls, n)
          /\ lost' = IF BeyondReach(e) THEN Bump(lost, e.cls, n) ELSE lost
      BY <2>1, <2>6 DEF BumpDone
    <3>8. e.cls \in InsnClass /\ n \in Width
      BY <3>2, SignedWidth DEF InsnClass
    <3> HIDE DEF n
    <3>9. QED
      BY <1>a, <1>b, <2>1, <2>4, <3>6, <3>7, <3>8, OneCounted
  <2>7. CASE e.kind = "store"
    <3> DEFINE n == effective_bits_unsigned(regs[e.rt] % 2^(e.size * ByteBits))
    <3>1. Decoded(Current) = Store(e.rt, e.size)
      BY <2>2, <2>7, ExactEffect
    <3>2. plan[block][at].own = Decoded(Current) /\ Decoded(Current) # NotTracked
          /\ Decoded(Current).cls = "STR" /\ OwnWidth(Decoded(Current), regs) = n
      BY <2>5, <3>1 DEF Measured, Store, NotTracked, OwnWidth
    <3>3. BeyondReach(e) <=> ~(Operands(Decoded(Current)) \subseteq BoundRegs)
      BY <2>7, <3>1 DEF BeyondReach, Operands, Store
    <3>4. Ahead(c, w) = IF ~BeyondReach(e) /\ c = "STR" /\ w = n THEN 1 ELSE 0
      BY <2>1, <2>2, <3>2, <3>3 DEF Ahead, ReadyToExecute
    <3>5. /\ truth' = Bump(truth, "STR", n)
          /\ lost' = IF BeyondReach(e) THEN Bump(lost, "STR", n) ELSE lost
      BY <2>1, <2>7 DEF BumpDone
    <3>6. "STR" \in InsnClass /\ n \in Width
      BY UnsignedWidth DEF InsnClass
    <3> HIDE DEF n
    <3>7. QED
      BY <1>a, <1>b, <2>1, <2>4, <3>4, <3>5, <3>6, OneCounted
  <2>8. CASE e.kind = "none"
    <3>1. plan[block][at].own = NotTracked
      BY <2>2, <2>5, <2>8, ExactEffect DEF Measured
    <3>2. truth' = truth /\ lost' = lost
      BY <2>1, <2>8 DEF BumpDone
    <3>3. QED
      BY <1>a, <2>1, <2>4, <3>1, <3>2, NothingAhead DEF Balanced
  <2>9. QED
    BY <2>1, <2>2, <2>6, <2>7, <2>8 DEF Effects
<1>7. ASSUME Skip \/ Trap, ReadyToExecute
      PROVE  Balanced(c, w)'
  <2>1. /\ UNCHANGED <<plan, hist, lost, truth>>
        /\ Current \in Insn /\ block \in Blocks /\ at \in 1 .. Len(block)
        /\ plan[block] = Plan(block) /\ Current = block[at]
    BY <1>7, <1>a, CurrentType DEF Skip, Trap, PositionOK, ReadyToExecute, Current
  <2>2. Decoded(Current).kind \notin {"compare", "store"}
    BY <1>7, <2>1 DEF Skip, Trap, ExactProgram, NotTracked
  <2>3. plan[block][at].own = NotTracked
    BY <2>1, <2>2, PlanEntries DEF Measured
  <2>4. Ahead(c, w) = 0 /\ Owed(c, w) = 0
    BY <1>7, <2>3, NothingAhead, NothingOwed DEF ReadyToExecute
  <2>5. Ahead(c, w)' = 0 /\ Owed(c, w)' = 0
    <3>1. CASE Skip
      <4>1. Decoded(Current).kind # "writeback"
        BY <3>1, <2>1 DEF Skip, ExactProgram, NotTracked
      <4>2. QED
        BY <3>1, <4>1, <1>a, <1>7, AfterGoOn DEF Skip
    <3>2. CASE Trap
      BY <3>2 DEF Trap, Ahead, Owed
    <3>3. QED
      BY <1>7, <3>1, <3>2
  <2>6. QED
    BY <1>a, <2>1, <2>4, <2>5 DEF Balanced
<1>8. CASE plugin_exit
  BY <1>8, <1>a DEF plugin_exit, Balanced, Ahead, Owed
<1>9. CASE UNCHANGED vars
  BY <1>9, <1>a DEF vars, Balanced, Ahead, Owed
<1>10. QED
  BY <1>1, <1>2, <1>3, <1>4, <1>5, <1>6, <1>7, <1>8, <1>9 DEF Next, Skip, Trap

(* "Within a TB this is exact" (bitwidth.c:17): for every program that     *)
(* satisfies ExactProgram, whatever its blocks, its results, the registers *)
(* that have a handle and the order of translation, each result is counted *)
(* once under its class and width, except a write-back that ends its block *)
(* and what lies in a register without a handle.                           *)
THEOREM Exactness == ExactProgram => (Spec => []Accounting)
<1> SUFFICES ASSUME ExactProgram
             PROVE  Spec => []Accounting
  OBVIOUS
<1>1. TypeOK /\ TypeOK' /\ Accounting /\ [Next]_vars => Accounting'
  BY NextAccounting
<1>2. QED
  BY <1>1, InitAccounting, Typing, PTL DEF Spec

(* Once written, the file is that of the final histogram, and the          *)
(* processor has stopped between two blocks: nothing counts any more.      *)
Rows == {row \in {<<c, w, hist[c][w]>> : c \in InsnClass, w \in Width} : row[3] > 0}

CsvIsFinal ==
  ~Running => block = <<>> /\ csv = {Header} \cup Rows

LEMMA NextCsv == TypeOK /\ CsvIsFinal /\ [Next]_vars => CsvIsFinal'
<1> SUFFICES ASSUME TypeOK, CsvIsFinal, [Next]_vars
             PROVE  CsvIsFinal'
  OBVIOUS
<1>1. CASE plugin_exit
  BY <1>1 DEF plugin_exit, CsvIsFinal, Rows
<1>2. CASE UNCHANGED vars
  BY <1>2 DEF vars, CsvIsFinal, Rows, Running
<1>3. CASE csv' = csv /\ Running
  BY <1>3 DEF CsvIsFinal, Running
<1>4. CASE csv' = csv /\ block # <<>>
  BY <1>4 DEF CsvIsFinal, Running
<1>5. todo # {} => block # <<>>
  BY DEF TypeOK, PositionOK
<1>6. QED
  BY <1>1, <1>2, <1>3, <1>4, <1>5
     DEF Next, vcpu_tb_trans, EnterBlock, cb_sample_writeback, cb_compare_or_store,
         CompleteWrite, CompleteOther, Skip, Trap, ReadyToExecute

(* The file that analyze.py reads is the processor's history less what is  *)
(* BeyondReach, row for row: between blocks nothing is owed and nothing    *)
(* ahead, so the accounting balances without them.                         *)
THEOREM FileTellsHistory == ExactProgram => (Spec => []CsvMatchesHistory)
<1> SUFFICES ASSUME ExactProgram
             PROVE  Spec => []CsvMatchesHistory
  OBVIOUS
<1>1. Init => CsvIsFinal
  BY DEF Init, CsvIsFinal, Running
<1>2. TypeOK /\ Accounting /\ CsvIsFinal => CsvMatchesHistory
  <2> SUFFICES ASSUME TypeOK, Accounting, CsvIsFinal, ~Running,
                      NEW c \in InsnClass, NEW w \in Width
               PROVE  LET n == truth[c][w] - lost[c][w]
                      IN IF n > 0 THEN <<c, w, n>> \in csv
                                  ELSE \A k \in 1 .. MaxRuns : <<c, w, k>> \notin csv
    BY DEF CsvMatchesHistory
  <2>1. block = <<>> /\ todo = {} /\ csv = {Header} \cup Rows
    BY DEF CsvIsFinal, TypeOK, PositionOK
  <2>2. Ahead(c, w) = 0 /\ Owed(c, w) = 0
    BY <2>1, NothingAhead, NothingOwed
  <2>3. truth[c][w] \in Nat /\ hist[c][w] \in Nat /\ lost[c][w] \in Nat
    BY CellTypes DEF TypeOK
  <2>4. truth[c][w] - lost[c][w] = hist[c][w]
    BY <2>2, <2>3 DEF Accounting
  <2>5. CASE hist[c][w] > 0
    BY <2>1, <2>4, <2>5 DEF Rows
  <2>6. CASE ~(hist[c][w] > 0)
    <3>1. SUFFICES ASSUME NEW k \in 1 .. MaxRuns, <<c, w, k>> \in csv
                   PROVE  FALSE
      BY <2>4, <2>6
    <3>2. <<c, w, k>> # Header
      BY DEF Header, InsnClass, WritebackClasses, CompareClasses
    <3>3. <<c, w, k>> \in Rows
      BY <2>1, <3>1, <3>2
    <3>4. k = hist[c][w]
      BY <3>3 DEF Rows
    <3>5. QED
      BY <2>6, <3>4, SamplerAssumption
  <2>7. QED
    BY <2>5, <2>6
<1>3. TypeOK /\ CsvIsFinal /\ [Next]_vars => CsvIsFinal'
  BY NextCsv
<1>4. Spec => []Accounting
  BY Exactness
<1>5. QED
  BY <1>1, <1>2, <1>3, <1>4, Typing, PTL DEF Spec

-----------------------------------------------------------------------------
(* vcpu_init binds every general register to its own handle, for every     *)
(* list of registers an emulator may give it, in any order and with any    *)
(* handles, NULL among them.                                               *)

LEMMA Forms ==
  /\ \A n : Numbered(n).form = "rn" /\ Numbered(n).number = n
  /\ \A w : OtherR(w).form = "r"
  /\ \A w : Named(w).form = "word" /\ Named(w).word = w
BY DEF Numbered, OtherR, Named

(* vcpu_init's comparisons and the names of the registers agree.           *)
LEMMA IndexNames ==
  ASSUME NEW name \in Listed, NEW r \in Register
  PROVE  IndexOf(name) = r <=> name \in NamesOf(r)
<1>1. r \in Nat /\ r <= 15
  BY RegistersAssumption DEF Register
<1>2. CASE name = Numbered(name.number) /\ name.number \in Nat
  <2>1. parse_rn(name) = name.number /\ name.form = "rn"
    BY <1>2, Forms DEF parse_rn
  <2>2. IndexOf(name) = name.number
    BY <1>2, <2>1 DEF IndexOf, Unbound
  <2>3. name = Numbered(r) <=> name.number = r
    BY <1>2, Forms
  <2>4. \A w : name # Named(w)
    BY <2>1, Forms
  <2> QED
    BY <2>2, <2>3, <2>4 DEF NamesOf
<1>3. CASE name = OtherR(name.word)
  <2>1. parse_rn(name) = Unbound /\ name.form = "r"
    BY <1>3, Forms DEF parse_rn
  <2>2. (\A w : name # Named(w)) /\ (\A n : name # Numbered(n))
    BY <2>1, Forms
  <2> QED
    BY <1>1, <2>1, <2>2 DEF IndexOf, NamesOf, Unbound
<1>4. CASE name = Named(name.word)
  <2>1. parse_rn(name) = Unbound /\ name.form = "word"
    BY <1>4, Forms DEF parse_rn
  <2>2. \A n : name # Numbered(n)
    BY <2>1, Forms
  <2>3. /\ Named("sp") # Named("lr") /\ Named("sp") # Named("pc") /\ Named("lr") # Named("pc")
    BY Forms
  <2> QED
    BY <1>1, <2>1, <2>2, <2>3 DEF IndexOf, NamesOf, Unbound
<1> QED
  BY <1>2, <1>3, <1>4, RegistersAssumption

(* What holds in the middle of vcpu_init: the loop has seen the registers  *)
(* that have a handle, and each of them is bound if it is a general one.   *)
SeenAreBound ==
  \A r \in Register : NamesOf(r) \cap DOMAIN handle # {} => reg_valid[r]

RegInv ==
  /\ unseen \subseteq Listed /\ DOMAIN handle = Listed \ unseen
  /\ reg_handles \in [Register -> Int] /\ reg_valid \in [Register -> BOOLEAN]
  /\ ReadsItsOwnRegister
  /\ SeenAreBound

LEMMA BindInv ==
  ASSUME RegInv, NEW name \in Listed, BindNext(name)
  PROVE  RegInv'
<1>1. PICK h \in Handle :
        /\ handle' = [x \in DOMAIN handle \cup {name} |-> IF x = name THEN h ELSE handle[x]]
        /\ bind_reg(IndexOf(name), h)
  BY DEF BindNext
<1>2. /\ name \in unseen /\ unseen' = unseen \ {name}
      /\ DOMAIN handle' = DOMAIN handle \cup {name}
      /\ handle'[name] = h
      /\ \A x \in DOMAIN handle : handle'[x] = handle[x]
  BY <1>1 DEF BindNext, RegInv
<1>3. unseen' \subseteq Listed /\ DOMAIN handle' = Listed \ unseen'
  BY <1>2 DEF RegInv
<1>4. h \in Int
  BY DEF Handle
<1> DEFINE idx == IndexOf(name)
<1> HIDE DEF idx
<1>5. CASE idx \in Register
  <2>1. /\ reg_handles' \in [Register -> Int] /\ reg_valid' \in [Register -> BOOLEAN]
        /\ reg_handles'[idx] = h /\ reg_valid'[idx]
        /\ \A r \in Register : r # idx => reg_handles'[r] = reg_handles[r] /\ reg_valid'[r] = reg_valid[r]
    BY <1>1, <1>4, <1>5 DEF bind_reg, RegInv, idx
  <2>2. name \in NamesOf(idx) /\ \A r \in Register : name \in NamesOf(r) => r = idx
    BY <1>5, IndexNames DEF idx
  <2>3. ReadsItsOwnRegister'
    <3> SUFFICES ASSUME NEW r \in Register, reg_valid'[r]
                 PROVE  \E x \in NamesOf(r) \cap DOMAIN handle' : reg_handles'[r] = handle'[x]
      BY DEF ReadsItsOwnRegister, Readable
    <3>1. CASE r = idx
      BY <1>2, <2>1, <2>2, <3>1
    <3>2. CASE r # idx
      <4>1. PICK x \in NamesOf(r) \cap DOMAIN handle : reg_handles[r] = handle[x]
        BY <2>1, <3>2 DEF RegInv, ReadsItsOwnRegister, Readable
      <4> QED
        BY <1>2, <2>1, <3>2, <4>1
    <3> QED
      BY <3>1, <3>2
  <2>4. SeenAreBound'
    BY <1>2, <2>1, <2>2 DEF RegInv, SeenAreBound
  <2> QED
    BY <1>3, <2>1, <2>3, <2>4 DEF RegInv
<1>6. CASE idx \notin Register
  <2>1. UNCHANGED <<reg_handles, reg_valid>>
    BY <1>1, <1>6 DEF bind_reg, idx
  <2>2. \A r \in Register : name \notin NamesOf(r)
    BY <1>6, IndexNames DEF idx
  <2>3. ReadsItsOwnRegister'
    <3> SUFFICES ASSUME NEW r \in Register, reg_valid[r]
                 PROVE  \E x \in NamesOf(r) \cap DOMAIN handle' : reg_handles[r] = handle'[x]
      BY <2>1 DEF ReadsItsOwnRegister, Readable
    <3>1. PICK x \in NamesOf(r) \cap DOMAIN handle : reg_handles[r] = handle[x]
      BY DEF RegInv, ReadsItsOwnRegister, Readable
    <3> QED
      BY <1>2, <3>1
  <2>4. SeenAreBound'
    BY <1>2, <2>1, <2>2 DEF RegInv, SeenAreBound
  <2> QED
    BY <1>3, <2>1, <2>3, <2>4 DEF RegInv
<1> QED
  BY <1>5, <1>6

LEMMA RegInvariant == BindingSpec => []RegInv
<1>1. BindingInit => RegInv
  <2> SUFFICES ASSUME BindingInit PROVE RegInv
    OBVIOUS
  <2>1. DOMAIN handle = {}
    BY DEF BindingInit
  <2>2. reg_handles \in [Register -> Int] /\ reg_valid \in [Register -> BOOLEAN]
        /\ \A r \in Register : ~reg_valid[r]
    BY DEF BindingInit, NULL
  <2> QED
    BY <2>1, <2>2 DEF BindingInit, RegInv, ReadsItsOwnRegister, Readable, SeenAreBound
<1>2. RegInv /\ [BindingNext]_bindingVars => RegInv'
  <2>1. ASSUME RegInv, UNCHANGED bindingVars PROVE RegInv'
    BY <2>1 DEF bindingVars, RegInv, ReadsItsOwnRegister, Readable, SeenAreBound
  <2> QED
    BY <2>1, BindInv DEF BindingNext
<1> QED
  BY <1>1, <1>2, PTL DEF BindingSpec

(* A register number of an instruction reads the register it names and no  *)
(* other, whatever the emulator lists and in whatever order.               *)
THEOREM OwnRegister == BindingSpec => []ReadsItsOwnRegister
<1>1. RegInv => ReadsItsOwnRegister
  BY DEF RegInv
<1> QED
  BY <1>1, RegInvariant, PTL

(* Once vcpu_init is done no general register of the list is unreadable.   *)
THEOREM NoneDropped == BindingSpec => []EveryRegisterReadable
<1>1. RegInv => EveryRegisterReadable
  BY DEF RegInv, SeenAreBound, EveryRegisterReadable, Readable
<1> QED
  BY <1>1, RegInvariant, PTL
=============================================================================
