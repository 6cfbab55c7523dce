---------------------------- MODULE DecodeProofs ----------------------------
(***************************************************************************)
(* What decode_insn can answer, for every encoding.                        *)
(***************************************************************************)
EXTENDS Decode, TLAPS

-----------------------------------------------------------------------------
(* The setters, on arguments in range.                                     *)

LEMMA WritebackType ==
  ASSUME NEW cls \in WritebackClasses, NEW rd \in 0 .. 15
  PROVE  Writeback(cls, rd) \in DecodedInsn
BY DEF Writeback, DecodedInsn

Operand == [reg_b : -1 .. 15, imm_b : SUBSET (0 .. 31)]

LEMMA RegOperandType ==
  ASSUME NEW rm \in 0 .. 15
  PROVE  RegOperand(rm) \in Operand
BY DEF RegOperand, Operand

LEMMA ImmOperandType ==
  ASSUME NEW imm \in SUBSET (0 .. 31)
  PROVE  ImmOperand(imm) \in Operand
BY DEF ImmOperand, Operand

LEMMA CompareType ==
  ASSUME NEW cls \in CompareClasses, NEW rn \in 0 .. 15, NEW operand \in Operand
  PROVE  Compare(cls, rn, operand) \in DecodedInsn
BY DEF Compare, Operand, DecodedInsn

LEMMA StoreType ==
  ASSUME NEW rt \in 0 .. 15, NEW size \in {1, 2, 4}
  PROVE  Store(rt, size) \in DecodedInsn
BY DEF Store, DecodedInsn

LEMMA NotTrackedType == NotTracked \in DecodedInsn
BY DEF DecodedInsn

(* The fields that name a register, an opcode or a shift type.             *)
LEMMA FieldRange ==
  ASSUME NEW hw \in Halfword
  PROVE  /\ Field(hw, 2, 0) \in 0 .. 7 /\ Field(hw, 5, 3) \in 0 .. 7
         /\ Field(hw, 10, 8) \in 0 .. 7 /\ Field(hw, 7, 7) \in 0 .. 1
         /\ Field(hw, 3, 0) \in 0 .. 15 /\ Field(hw, 6, 3) \in 0 .. 15
         /\ Field(hw, 11, 8) \in 0 .. 15 /\ Field(hw, 15, 12) \in 0 .. 15
         /\ Field(hw, 9, 6) \in 0 .. 15 /\ Field(hw, 12, 11) \in 0 .. 3
         /\ Field(hw, 5, 4) \in 0 .. 3 /\ Field(hw, 6, 5) \in 0 .. 3
         /\ Field(hw, 11, 9) \in 0 .. 7 /\ Field(hw, 7, 0) \in 0 .. 255
<1>1. /\ Field(hw, 2, 0) \in 0 .. 7 /\ Field(hw, 5, 3) \in 0 .. 7
      /\ Field(hw, 10, 8) \in 0 .. 7
  BY DEF Field, Halfword
<1>2. Field(hw, 7, 7) \in 0 .. 1 /\ Field(hw, 11, 9) \in 0 .. 7
  BY DEF Field, Halfword
<1>3. Field(hw, 3, 0) \in 0 .. 15 /\ Field(hw, 6, 3) \in 0 .. 15
  BY DEF Field, Halfword
<1>4. Field(hw, 11, 8) \in 0 .. 15 /\ Field(hw, 15, 12) \in 0 .. 15
  BY DEF Field, Halfword
<1>5. Field(hw, 9, 6) \in 0 .. 15 /\ Field(hw, 7, 0) \in 0 .. 255
  BY DEF Field, Halfword
<1>6. Field(hw, 12, 11) \in 0 .. 3 /\ Field(hw, 5, 4) \in 0 .. 3
  BY DEF Field, Halfword
<1>7. Field(hw, 6, 5) \in 0 .. 3
  BY DEF Field, Halfword
<1>8. QED
  BY <1>1, <1>2, <1>3, <1>4, <1>5, <1>6, <1>7

LEMMA OneBitsType == \A x : OneBits(x) \in SUBSET (0 .. 31)
BY DEF OneBits

LEMMA ExpandType == \A x : thumb_expand_imm(x) \in SUBSET (0 .. 31)
BY OneBitsType DEF thumb_expand_imm, CopiesAt, ShiftLeft, ShiftRight

-----------------------------------------------------------------------------
(* 16-bit encodings.                                                       *)

LEMMA T16Type ==
  ASSUME NEW hw \in Halfword
  PROVE  decode_t16(hw) \in DecodedInsn
<1> USE NotTrackedType, WritebackType, CompareType, StoreType, RegOperandType, ImmOperandType
<1> USE FieldRange
<1>1. DataProcessing16(hw) \in DecodedInsn
  BY DEF DataProcessing16, DataProcessingMap, WritebackClasses, CompareClasses
<1>2. ShiftImmediate16(hw) \in DecodedInsn
  BY DEF ShiftImmediate16, ShiftClass, WritebackClasses
<1>3. AddSubtract16(hw) \in DecodedInsn
  BY DEF AddSubtract16, WritebackClasses
<1>4. Immediate8(hw) \in DecodedInsn
  BY OneBitsType DEF Immediate8, WritebackClasses, CompareClasses
<1>5. HighRegister16(hw) \in DecodedInsn
  BY DEF HighRegister16, WritebackClasses, CompareClasses
<1>6. StoreRegisterOffset16(hw) \in DecodedInsn
  BY DEF StoreRegisterOffset16
<1>7. QED
  BY <1>1, <1>2, <1>3, <1>4, <1>5, <1>6 DEF decode_t16

-----------------------------------------------------------------------------
(* 32-bit encodings.                                                       *)

LEMMA DpiType ==
  ASSUME NEW op4, NEW s, NEW rn \in 0 .. 15, NEW rd \in 0 .. 15, NEW operand \in Operand
  PROVE  decode_t32_dpi_common(op4, s, rn, rd, operand) \in DecodedInsn
BY NotTrackedType, WritebackType, CompareType
DEF decode_t32_dpi_common, WritebackClasses, CompareClasses

LEMMA T32Type ==
  ASSUME NEW hw1 \in Halfword, NEW hw2 \in Halfword
  PROVE  decode_t32(hw1, hw2) \in DecodedInsn
<1> USE NotTrackedType, WritebackType, StoreType, FieldRange
<1>1. RegisterForm32(hw1, hw2) \in DecodedInsn
  <2>1. ShiftClass[Field(hw2, 5, 4) + 1] \in WritebackClasses
    BY DEF ShiftClass, WritebackClasses
  <2>2. RegOperand(Field(hw2, 3, 0)) \in Operand
    BY RegOperandType
  <2>3. decode_t32_dpi_common(Field(hw1, 8, 5), Field(hw1, 4, 4), Field(hw1, 3, 0),
          Field(hw2, 11, 8), RegOperand(Field(hw2, 3, 0))) \in DecodedInsn
    BY <2>2, DpiType
  <2>4. QED
    BY <2>1, <2>3 DEF RegisterForm32
<1>2. ImmediateForm32(hw1, hw2) \in DecodedInsn
  <2> DEFINE imm12 == 2048 * Field(hw1, 10, 10) + 256 * Field(hw2, 14, 12) + Field(hw2, 7, 0)
  <2>1. ImmOperand(thumb_expand_imm(imm12)) \in Operand
    BY ExpandType, ImmOperandType
  <2>2. decode_t32_dpi_common(Field(hw1, 8, 5), Field(hw1, 4, 4), Field(hw1, 3, 0),
          Field(hw2, 11, 8), ImmOperand(thumb_expand_imm(imm12))) \in DecodedInsn
    <3> HIDE DEF imm12
    <3> QED  BY <2>1, DpiType
  <2>3. QED
    BY <2>2 DEF ImmediateForm32
<1>3. \A cls \in WritebackClasses : PlainImmediate32(cls, hw1, hw2) \in DecodedInsn
  BY DEF PlainImmediate32
<1>4. \A n \in {3968, 3970, 3972, 3976, 3978, 3980} : StoreSize32(n) \in {1, 2, 4}
  BY DEF StoreSize32
<1>5. ShiftClass[Field(hw1, 6, 5) + 1] \in WritebackClasses
  BY DEF ShiftClass, WritebackClasses
<1>6. {"ADD", "SUB", "MUL", "DIV"} \subseteq WritebackClasses
  BY DEF WritebackClasses
<1>7. QED
  BY <1>1, <1>2, <1>3, <1>4, <1>5, <1>6 DEF decode_t32

-----------------------------------------------------------------------------

(* decode_insn leaves a class of the histogram and registers of the        *)
(* register table, whatever the two halfwords and the size are.            *)
THEOREM DecodeInRange ==
  ASSUME NEW hw1 \in Halfword, NEW hw2 \in Halfword, NEW size
  PROVE  decode_insn(hw1, hw2, size) \in DecodedInsn
BY T16Type, T32Type, NotTrackedType DEF decode_insn
=============================================================================
