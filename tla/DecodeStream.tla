---------------------------- MODULE DecodeStream ----------------------------
(***************************************************************************)
(* The instruction stream vcpu_tb_trans hands to decode_insn, one encoding *)
(* after the other, and what decode.h promises of the answer.  The stream  *)
(* and the architectural reference below (ARMv7-M) are the environment of  *)
(* the decoder; the decoder itself is module Decode.                       *)
(***************************************************************************)
EXTENDS Decode

CONSTANTS
  Heads,    \* the first halfwords of 32-bit encodings to try
  Seconds   \* the second halfwords to try after each of them

ASSUME StreamAssumption ==
  /\ Heads \subseteq {h \in Halfword : h >= 59392}  \* 0xE800 and up: two halfwords
  /\ Seconds \subseteq Halfword

VARIABLES
  stage,    \* how much of the current instruction has been read
  hw1,      \* its first halfword
  hw2       \* its second halfword, 0 when there is none

vars == <<stage, hw1, hw2>>

(* The stream is one or two halfwords of the current instruction.          *)
StreamTypeOK ==
  /\ stage \in {"start", "head", "narrow", "wide"}
  /\ hw1 \in Halfword /\ hw2 \in Halfword

Init == stage = "start" /\ hw1 = 0 /\ hw2 = 0

FetchNarrow ==
  /\ stage = "start"
  /\ \E h \in 0 .. 59391 : hw1' = h
  /\ stage' = "narrow"
  /\ UNCHANGED hw2

FetchHead ==
  /\ stage = "start"
  /\ \E h \in Heads : hw1' = h
  /\ stage' = "head"
  /\ UNCHANGED hw2

(* After TST.W r0, #imm every second halfword that names the immediate is  *)
(* tried, so that all 4096 modified immediates occur.                      *)
IsTstR0(h) == h \in {61456, 62480}
ImmediateSeconds == {4096 * imm3 + 15 * 256 + imm8 : imm3 \in 0 .. 7, imm8 \in 0 .. 255}

FetchSecond ==
  /\ stage = "head"
  /\ \E h \in IF IsTstR0(hw1) THEN ImmediateSeconds ELSE Seconds : hw2' = h
  /\ stage' = "wide"
  /\ UNCHANGED hw1

NextInsn ==
  /\ stage \in {"narrow", "wide"}
  /\ stage' = "start"
  /\ hw1' = 0 /\ hw2' = 0

Next == FetchNarrow \/ FetchHead \/ FetchSecond \/ NextInsn

Spec == Init /\ [][Next]_vars

-----------------------------------------------------------------------------
(* The answer for the current instruction.                                 *)
IsNarrow == stage = "narrow"
IsWide   == stage = "wide"

Decoded == decode_insn(hw1, hw2, IF IsWide THEN 4 ELSE 2)

(* Whatever the decoder accepts indexes the histogram and the register     *)
(* table within bounds: in particular the CLS_COUNT fillers of the opcode  *)
(* tables never escape, which would count into memory past the histogram.  *)
TableIndicesInRange ==
  stage \in {"narrow", "wide"} /\ Decoded # NotTracked =>
    /\ Decoded.cls \in InsnClass
    /\ Decoded.reg_a \in 0 .. 15
    /\ Decoded.kind = "compare" => Decoded.reg_b \in -1 .. 15

-----------------------------------------------------------------------------
(* T32ExpandImm as the architecture states it, bit by bit.                 *)
ArchExpandImm(imm12) ==
  LET low == OneBits(Field(imm12, 7, 0))
      rot == Field(imm12, 11, 7)
  IN {p \in 0 .. 31 :
        CASE Field(imm12, 11, 8) = 0 -> p \in low
          [] Field(imm12, 11, 8) = 1 -> p % 16 \in low
          [] Field(imm12, 11, 8) = 2 -> (p % 16) - 8 \in low
          [] Field(imm12, 11, 8) = 3 -> p % 8 \in low
          [] OTHER -> (p + rot) % 32 \in low \cup {7}}

(* A compare with a modified immediate is measured against the constant    *)
(* the processor compares with, for every immediate there is.              *)
ImmediatesAsArchitected ==
  (IsWide /\ IsTstR0(hw1)) =>
    /\ Decoded.kind = "compare"
    /\ Decoded.imm_b = ArchExpandImm(2048 * Field(hw1, 10, 10)
                         + 256 * Field(hw2, 14, 12) + Field(hw2, 7, 0))

-----------------------------------------------------------------------------
(* The 32-bit encoding of the same assembly instruction, as a pair of      *)
(* halfwords, for a 16-bit encoding that has one.  ADD with PC has none,   *)
(* nor has ADD SP,SP; ADD Rd,SP,Rd has SP for its first operand.           *)
NoTwin == <<>>

WideDataProcessing(op, m, d) ==
  LET head == <<59920, 60048, 64016, 64048, 64080, 60240, 60272, 64112,
                59920, 61904, 60336, 60176, 59984, 64256, 59952, 60031>>[op + 1]
  IN CASE op \in {2, 3, 4, 7, 13} -> <<head + d, 61440 + 256 * d + m>>
       [] op \in {8, 10, 11}      -> <<head + d, 15 * 256 + m>>
       [] op = 9                  -> <<head + m, 256 * d>>
       [] op = 15                 -> <<head, 256 * d + m>>
       [] OTHER                   -> <<head + d, 256 * d + m>>

WideTwin(hw) ==
  LET top5 == Field(hw, 15, 11)
      a    == Field(hw, 8, 6)
      n    == Field(hw, 5, 3)
      d    == Field(hw, 2, 0)
      dHi  == 8 * Field(hw, 7, 7) + d
      mHi  == Field(hw, 6, 3)
      imm5 == Field(hw, 10, 6)
      r8   == Field(hw, 10, 8)
      imm8 == Field(hw, 7, 0)
  IN CASE top5 \in 0 .. 2 ->
            <<59999, 4096 * (imm5 \div 4) + 256 * d + 64 * (imm5 % 4) + 16 * top5 + n>>
       [] top5 = 3 ->
            <<(<<60176, 60336, 61712, 61872>>[Field(hw, 10, 9) + 1]) + n, 256 * d + a>>
       [] top5 = 4 -> <<61535, 256 * r8 + imm8>>
       [] top5 = 5 -> <<61872 + r8, 15 * 256 + imm8>>
       [] top5 = 6 -> <<61712 + r8, 256 * r8 + imm8>>
       [] top5 = 7 -> <<61872 + r8, 256 * r8 + imm8>>
       [] Field(hw, 15, 10) = 16 -> WideDataProcessing(Field(hw, 9, 6), n, d)
       [] Field(hw, 15, 8) = 68 /\ 15 \notin {dHi, mHi} /\ {dHi, mHi} # {13} ->
            IF mHi = 13 THEN <<60173, 256 * dHi + dHi>>
                        ELSE <<60160 + dHi, 256 * dHi + mHi>>
       [] Field(hw, 15, 8) = 69 -> <<60336 + dHi, 15 * 256 + mHi>>
       [] Field(hw, 15, 8) = 70 -> <<59983, 256 * dHi + mHi>>
       [] Field(hw, 15, 9) = 40 -> <<63552 + n, 4096 * d + a>>
       [] Field(hw, 15, 9) = 41 -> <<63520 + n, 4096 * d + a>>
       [] Field(hw, 15, 9) = 42 -> <<63488 + n, 4096 * d + a>>
       [] top5 = 12 -> <<63680 + n, 4096 * d + 4 * imm5>>
       [] top5 = 14 -> <<63616 + n, 4096 * d + imm5>>
       [] top5 = 16 -> <<63648 + n, 4096 * d + 2 * imm5>>
       [] top5 = 18 -> <<63693, 4096 * r8 + 4 * imm8>>
       [] OTHER -> NoTwin

(* ADD Rd, SP and ADD Rd, PC (any registers): address formation that the   *)
(* 16-bit decoder counts, for it looks at the destination only.            *)
AddsSP(hw) ==
  /\ Field(hw, 15, 8) = 68 /\ Field(hw, 6, 3) = 13
  /\ 8 * Field(hw, 7, 7) + Field(hw, 2, 0) \notin {13, 15}

AddsPC(hw) ==
  /\ Field(hw, 15, 8) = 68 /\ Field(hw, 6, 3) = 15
  /\ 8 * Field(hw, 7, 7) + Field(hw, 2, 0) \notin {13, 15}

(* The assembler is free to emit the short or the long encoding of an      *)
(* instruction.  The measurement does not depend on its choice, the class  *)
(* and the registers being the same in both and a move excluded in both,   *)
(* with one exception: ADD Rd, SP is counted when it is short              *)
(* (decode.c:156-161) and dropped when it is long (decode.c:278-280).      *)
EncodingsDifferForSPOnly ==
  IsNarrow =>
    LET twin == WideTwin(hw1)
    IN twin # NoTwin => (Decoded = decode_insn(twin[1], twin[2], 4)) = ~AddsSP(hw1)

-----------------------------------------------------------------------------
(* Encodings of instructions that decode.h puts out of scope.              *)

Move16(hw) ==
  \/ Field(hw, 15, 6) = 0            \* MOVS Rd, Rm
  \/ Field(hw, 15, 11) = 4           \* MOVS Rd, #imm8
  \/ Field(hw, 15, 8) = 70           \* MOV Rd, Rm (any registers)

Load16(hw) ==
  \/ Field(hw, 15, 11) \in {9, 13, 15, 17, 19}
  \/ Field(hw, 15, 12) = 5 /\ Field(hw, 11, 9) >= 3

Branch16(hw) ==
  \/ Field(hw, 15, 12) = 13
  \/ Field(hw, 15, 11) = 28
  \/ Field(hw, 15, 8) = 71           \* BX, BLX

(* PUSH/POP, CBZ, IT, LDM/STM and the rest of the miscellaneous group.     *)
Other16(hw) == Field(hw, 15, 12) \in {10, 11, 12}

(* ADR, ADD Rd,SP,#imm, SP adjustment, and ADD naming SP or PC.            *)
Address16(hw) ==
  \/ Field(hw, 15, 12) = 10
  \/ Field(hw, 15, 8) = 176
  \/ /\ Field(hw, 15, 8) = 68
     /\ {Field(hw, 6, 3), 8 * Field(hw, 7, 7) + Field(hw, 2, 0)} \cap {13, 15} # {}

(* The first halfwords of data processing with a modified immediate.       *)
Immediate32(h1) == Field(h1, 15, 11) = 30 /\ Field(h1, 9, 9) = 0

(* MOVW, MOVT, MOV.W #imm and MOV.W Rd, Rm without a shift.                *)
Move32(h1, h2) ==
  \/ Field(h1, 15, 4) \in {3876, 3940, 3884, 3948}
  \/ /\ Field(h1, 8, 5) = 2 /\ Field(h1, 3, 0) = 15
     /\ \/ Immediate32(h1)
        \/ Field(h1, 15, 9) = 117 /\ Field(h2, 14, 12) = 0 /\ Field(h2, 7, 4) = 0

(* ADR.W, ADDW and SUBW of SP, and ADD.W and SUB.W of SP: with their flags *)
(* set and no destination these are CMN and CMP.                           *)
Address32(h1, h2) ==
  \/ Field(h1, 15, 4) \in {3872, 3936, 3882, 3946} /\ Field(h1, 3, 0) \in {13, 15}
  \/ /\ Immediate32(h1) \/ Field(h1, 15, 9) = 117
     /\ Field(h1, 8, 5) \in {8, 13} /\ Field(h1, 3, 0) = 13
     /\ ~(Field(h1, 4, 4) = 1 /\ Field(h2, 11, 8) = 15)

Load32(h1)     == Field(h1, 15, 9) = 124 /\ Field(h1, 4, 4) = 1
Multiple32(h1) == Field(h1, 15, 9) = 116     \* LDM/STM, LDRD/STRD, TBB, exclusives

(* BL, B.W and B<cond>.W: the control half of the 11110 group, where       *)
(* bit 15 of the second halfword is set.                                   *)
Branch32(h1, h2) ==
  /\ Field(h1, 15, 11) = 30 /\ Field(h2, 15, 15) = 1
  /\ \/ Field(h2, 14, 14) = 1 /\ Field(h2, 12, 12) = 1
     \/ Field(h2, 14, 14) = 0 /\ Field(h2, 12, 12) = 1
     \/ Field(h2, 14, 14) = 0 /\ Field(h1, 9, 7) # 7

(* Of the moves, loads, short branches, multi-register transfers and       *)
(* address formations, short and long, exactly the short ADD Rd, SP and    *)
(* ADD Rd, PC are counted: no group's test claims another's encodings.     *)
OnlyAddressAddsCounted ==
  /\ IsNarrow =>
       (Move16(hw1) \/ Load16(hw1) \/ Branch16(hw1) \/ Other16(hw1) \/ Address16(hw1)
          => (Decoded # NotTracked) = (AddsSP(hw1) \/ AddsPC(hw1)))
  /\ IsWide =>
       (Move32(hw1, hw2) \/ Address32(hw1, hw2) \/ Load32(hw1) \/ Multiple32(hw1)
          => Decoded = NotTracked)

(* decode.h:50-52 lists SP/PC-relative address formation among what        *)
(* decode_insn returns false for.  decode.c:157 asks whether SP or PC is   *)
(* the destination of the 16-bit ADD, not whether it is an operand.        *)
AddressFormationIgnored ==
  /\ IsNarrow => (Address16(hw1) => Decoded = NotTracked)
  /\ IsWide => (Address32(hw1, hw2) => Decoded = NotTracked)

(* decode.h:50-52 lists branches among what decode_insn returns false for. *)
(* The modified-immediate test of decode_t32 does not look at bit 15 of    *)
(* the second halfword, so a forward BL decodes as a data-processing       *)
(* instruction.                                                            *)
WideBranchesIgnored ==
  IsWide => (Branch32(hw1, hw2) => Decoded = NotTracked)
=============================================================================
