------------------------------- MODULE Decode -------------------------------
(***************************************************************************)
(* The Thumb/Thumb-2 decoder of the bitwidth plugin (plugin/decode.c,      *)
(* plugin/decode.h): from one or two halfwords to the class of the         *)
(* instruction and the register the plugin has to sample.                  *)
(*                                                                         *)
(* A halfword is a number in 0..65535 and its fields are read by position. *)
(* A 32-bit immediate is the set of the positions of its 1 bits, so that   *)
(* shifts and replications are set operations and no value exceeds the     *)
(* model checker's integers.                                               *)
(***************************************************************************)
EXTENDS Integers, Sequences, FiniteSets

Halfword == 0 .. 65535

(* The unsigned field hi..lo of a halfword: (hw >> lo) & mask.             *)
Field(hw, hi, lo) == (hw \div 2^lo) % 2^(hi - lo + 1)

-----------------------------------------------------------------------------
(* Instruction classes, by the names of insn_class_names.                  *)

WritebackClasses ==
  {"ADD", "SUB", "RSB", "ADC", "SBC", "AND", "ORR", "EOR", "BIC", "MVN",
   "MUL", "DIV", "LSL", "LSR", "ASR", "ROR"}
CompareClasses == {"CMP", "CMN", "TST", "TEQ"}
InsnClass == WritebackClasses \cup CompareClasses \cup {"STR"}

(* CLS_COUNT: one past the last class, the filler of the opcode tables.    *)
CLS_COUNT == "COUNT"

-----------------------------------------------------------------------------
(* Decoded instructions.  Each setter of the C code fills the fields its   *)
(* kind uses and leaves the others uninitialised; here a kind has exactly  *)
(* the fields it fills.                                                    *)

NotTracked == [kind |-> "none"]

Writeback(cls, rd) == [kind |-> "writeback", cls |-> cls, reg_a |-> rd]

RegOperand(rm)  == [reg_b |-> rm, imm_b |-> {}]
ImmOperand(imm) == [reg_b |-> -1, imm_b |-> imm]

Compare(cls, rn, operand) ==
  [kind |-> "compare", cls |-> cls, reg_a |-> rn,
   reg_b |-> operand.reg_b, imm_b |-> operand.imm_b]

Store(rt, size) ==
  [kind |-> "store", cls |-> "STR", reg_a |-> rt, store_size |-> size]

(* The values decode_insn can leave in its output.                         *)
DecodedInsn ==
  {NotTracked}
  \cup [kind : {"writeback"}, cls : WritebackClasses, reg_a : 0 .. 15]
  \cup [kind : {"compare"}, cls : CompareClasses, reg_a : 0 .. 15,
        reg_b : -1 .. 15, imm_b : SUBSET (0 .. 31)]
  \cup [kind : {"store"}, cls : {"STR"}, reg_a : 0 .. 15, store_size : {1, 2, 4}]

-----------------------------------------------------------------------------
(* Immediates.                                                             *)

(* The 1 bits of a field's value.                                          *)
OneBits(x) == {b \in 0 .. 15 : Field(x, b, b) = 1}

ShiftLeft(w, n)  == {b + n : b \in w} \cap (0 .. 31)
ShiftRight(w, n) == {b - n : b \in w} \cap (0 .. 31)

(* imm8 * 0x00010001 and its relatives: copies that do not overlap.        *)
CopiesAt(w, offsets) == UNION {ShiftLeft(w, n) : n \in offsets}

(* Mutant: the leading 1 of a rotated constant is not restored.            *)
ExpandWithoutLeadingOne(imm12) ==
  LET imm8 == OneBits(Field(imm12, 7, 0))
      sel  == Field(imm12, 11, 8)
      rot  == Field(imm12, 11, 7)
  IN CASE sel = 0 -> imm8
       [] sel = 1 -> CopiesAt(imm8, {0, 16})
       [] sel = 2 -> CopiesAt(imm8, {8, 24})
       [] sel = 3 -> CopiesAt(imm8, {0, 8, 16, 24})
       [] OTHER   -> ShiftRight(imm8, rot) \cup ShiftLeft(imm8, 32 - rot)

thumb_expand_imm(imm12) ==
  LET imm8      == OneBits(Field(imm12, 7, 0))
      sel       == Field(imm12, 11, 8)
      unrotated == imm8 \cup {7}
      rot       == Field(imm12, 11, 7)
  IN CASE sel = 0 -> imm8
       [] sel = 1 -> CopiesAt(imm8, {0, 16})
       [] sel = 2 -> CopiesAt(imm8, {8, 24})
       [] sel = 3 -> CopiesAt(imm8, {0, 8, 16, 24})
       [] OTHER   -> ShiftRight(unrotated, rot) \cup ShiftLeft(unrotated, 32 - rot)

-----------------------------------------------------------------------------
(* 16-bit encodings.                                                       *)

(* Opcode table of 010000 oooo mmm ddd, indexed by opcode; the entries of  *)
(* the compares hold the filler.                                           *)
DataProcessingMap ==
  <<"AND", "EOR", "LSL", "LSR", "ASR", "ADC", "SBC", "ROR",
    CLS_COUNT, "RSB", CLS_COUNT, CLS_COUNT, "ORR", "MUL", "BIC", "MVN">>

(* Mutant: CMN has no case of its own and takes the filler of the table.   *)
DataProcessingWithoutCmn(hw) ==
  LET op == Field(hw, 9, 6)
      ra == Field(hw, 5, 3)
      rb == Field(hw, 2, 0)
  IN CASE op = 8  -> Compare("TST", rb, RegOperand(ra))
       [] op = 10 -> Compare("CMP", rb, RegOperand(ra))
       [] OTHER   -> Writeback(DataProcessingMap[op + 1], rb)

DataProcessing16(hw) ==
  LET op == Field(hw, 9, 6)
      ra == Field(hw, 5, 3)
      rb == Field(hw, 2, 0)
  IN CASE op = 8  -> Compare("TST", rb, RegOperand(ra))
       [] op = 10 -> Compare("CMP", rb, RegOperand(ra))
       [] op = 11 -> Compare("CMN", rb, RegOperand(ra))
       [] OTHER   -> Writeback(DataProcessingMap[op + 1], rb)

ShiftClass == <<"LSL", "LSR", "ASR", "ROR">>

(* Mutant: the register move, a shift by zero, is counted as a shift.      *)
ShiftsAndMoves(hw) ==
  Writeback(ShiftClass[Field(hw, 12, 11) + 1], Field(hw, 2, 0))

ShiftImmediate16(hw) ==
  LET shty == Field(hw, 12, 11)
  IN IF shty = 0 /\ Field(hw, 10, 6) = 0
     THEN NotTracked
     ELSE Writeback(ShiftClass[shty + 1], Field(hw, 2, 0))

AddSubtract16(hw) ==
  Writeback(IF Field(hw, 9, 9) = 1 THEN "SUB" ELSE "ADD", Field(hw, 2, 0))

Immediate8(hw) ==
  LET op == Field(hw, 12, 11)
      rd == Field(hw, 10, 8)
  IN CASE op = 0 -> NotTracked
       [] op = 1 -> Compare("CMP", rd, ImmOperand(OneBits(Field(hw, 7, 0))))
       [] op = 2 -> Writeback("ADD", rd)
       [] op = 3 -> Writeback("SUB", rd)

(* ADD/CMP/MOV that can name a high register: 010001 oo.  Of an ADD the    *)
(* destination is looked at only: ADD Rd, SP and ADD Rd, PC are counted.   *)
HighRegister16(hw) ==
  LET op  == Field(hw, 9, 8)
      rm  == Field(hw, 6, 3)
      rdn == 8 * Field(hw, 7, 7) + Field(hw, 2, 0)
  IN CASE op = 0 /\ rdn \notin {13, 15} -> Writeback("ADD", rdn)
       [] op = 1                        -> Compare("CMP", rdn, RegOperand(rm))
       [] OTHER                         -> NotTracked

(* Mutant: the store sizes in ascending order, word and byte exchanged.    *)
StoreSizesExchanged(hw) ==
  LET op == Field(hw, 11, 9)
  IN IF op \in 0 .. 2 THEN Store(Field(hw, 2, 0), <<1, 2, 4>>[op + 1])
                      ELSE NotTracked

(* STR, STRH, STRB with a register offset; the loads are not tracked.      *)
StoreRegisterOffset16(hw) ==
  LET op == Field(hw, 11, 9)
  IN IF op \in 0 .. 2 THEN Store(Field(hw, 2, 0), <<4, 2, 1>>[op + 1])
                      ELSE NotTracked

decode_t16(hw) ==
  LET top5 == Field(hw, 15, 11)
  IN CASE Field(hw, 15, 10) = 16           -> DataProcessing16(hw)
       [] top5 \in 0 .. 2                  -> ShiftImmediate16(hw)
       [] top5 = 3                         -> AddSubtract16(hw)
       [] top5 \in 4 .. 7                  -> Immediate8(hw)
       [] Field(hw, 15, 8) \in 68 .. 70    -> HighRegister16(hw)
       [] Field(hw, 15, 12) = 5            -> StoreRegisterOffset16(hw)
       [] top5 = 12                        -> Store(Field(hw, 2, 0), 4)
       [] top5 = 14                        -> Store(Field(hw, 2, 0), 1)
       [] top5 = 16                        -> Store(Field(hw, 2, 0), 2)
       [] top5 = 18                        -> Store(Field(hw, 10, 8), 4)
       [] OTHER                            -> NotTracked

-----------------------------------------------------------------------------
(* 32-bit encodings.                                                       *)

(* The opcode table the register and the modified-immediate forms share.   *)
decode_t32_dpi_common(op4, s, rn, rd, operand) ==
  LET is_special == s = 1 /\ rd = 15
      Alu(cls)   == Writeback(cls, rd)
      AluOrCompare(cls, cmp) ==
        IF is_special THEN Compare(cmp, rn, operand) ELSE Alu(cls)
      UnlessSP(cls, cmp) ==
        IF ~is_special /\ rn = 13 THEN NotTracked ELSE AluOrCompare(cls, cmp)
  IN CASE op4 = 0  -> AluOrCompare("AND", "TST")
       [] op4 = 1  -> Alu("BIC")
       [] op4 = 2  -> IF rn = 15 THEN NotTracked ELSE Alu("ORR")
       [] op4 = 3  -> Alu(IF rn = 15 THEN "MVN" ELSE "ORR")
       [] op4 = 4  -> AluOrCompare("EOR", "TEQ")
       [] op4 = 8  -> UnlessSP("ADD", "CMN")
       [] op4 = 10 -> Alu("ADC")
       [] op4 = 11 -> Alu("SBC")
       [] op4 = 13 -> UnlessSP("SUB", "CMP")
       [] op4 = 14 -> Alu("RSB")
       [] OTHER    -> NotTracked

(* EAxx/EBxx.  The shift that applies to the second operand (imm3:imm2 and *)
(* type) is looked at for MOV.W and its aliases only.                      *)
RegisterForm32(hw1, hw2) ==
  LET op4  == Field(hw1, 8, 5)
      rn   == Field(hw1, 3, 0)
      rd   == Field(hw2, 11, 8)
      shim == 4 * Field(hw2, 14, 12) + Field(hw2, 7, 6)
      shty == Field(hw2, 5, 4)
  IN IF op4 = 2 /\ rn = 15
     THEN IF shty = 0 /\ shim = 0 THEN NotTracked
                                  ELSE Writeback(ShiftClass[shty + 1], rd)
     ELSE decode_t32_dpi_common(op4, Field(hw1, 4, 4), rn, rd,
                                RegOperand(Field(hw2, 3, 0)))

(* 11110 i 0 oooo s nnnn: bit 15 of the second halfword is not looked at.  *)
ImmediateForm32(hw1, hw2) ==
  LET imm12 == 2048 * Field(hw1, 10, 10) + 256 * Field(hw2, 14, 12) + Field(hw2, 7, 0)
  IN decode_t32_dpi_common(Field(hw1, 8, 5), Field(hw1, 4, 4), Field(hw1, 3, 0),
                           Field(hw2, 11, 8), ImmOperand(thumb_expand_imm(imm12)))

PlainImmediate32(cls, hw1, hw2) ==
  IF Field(hw1, 3, 0) \in {13, 15} THEN NotTracked
                                   ELSE Writeback(cls, Field(hw2, 11, 8))

(* F80/F88, F82/F8A, F84/F8C: both addressing forms of STRB, STRH, STR.    *)
StoreSize32(top12) ==
  CASE top12 \in {3968, 3976} -> 1
    [] top12 \in {3970, 3978} -> 2
    [] top12 \in {3972, 3980} -> 4

decode_t32(hw1, hw2) ==
  LET top12 == Field(hw1, 15, 4)
      rd    == Field(hw2, 11, 8)
      quads == <<Field(hw2, 15, 12), Field(hw2, 7, 4)>>
  IN CASE Field(hw1, 15, 7) = 500 /\ quads = <<15, 0>> ->       \* FA00 .. FA7F
            Writeback(ShiftClass[Field(hw1, 6, 5) + 1], rd)
       [] Field(hw1, 15, 9) = 117 -> RegisterForm32(hw1, hw2)   \* EA00 .. EBFF
       [] Field(hw1, 15, 11) = 30 /\ Field(hw1, 9, 9) = 0 ->    \* F0, F1, F4, F5
            ImmediateForm32(hw1, hw2)
       [] top12 \in {3872, 3936} -> PlainImmediate32("ADD", hw1, hw2)  \* F20, F60
       [] top12 \in {3882, 3946} -> PlainImmediate32("SUB", hw1, hw2)  \* F2A, F6A
       [] top12 \in {3968, 3970, 3972, 3976, 3978, 3980} ->
            Store(Field(hw2, 15, 12), StoreSize32(top12))
       [] top12 = 4016 ->                                       \* FB0
            IF Field(hw2, 7, 4) \in {0, 1} THEN Writeback("MUL", rd) ELSE NotTracked
       [] top12 \in {4025, 4027} /\ quads = <<15, 15>> -> Writeback("DIV", rd)
       [] OTHER -> NotTracked

decode_insn(hw1, hw2, size) ==
  CASE size = 2 -> decode_t16(hw1)
    [] size = 4 -> decode_t32(hw1, hw2)
    [] OTHER    -> NotTracked
=============================================================================
