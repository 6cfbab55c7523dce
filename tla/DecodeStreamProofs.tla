------------------------- MODULE DecodeStreamProofs -------------------------
(***************************************************************************)
(* The decoder keeps its promises on every stream of instructions.         *)
(***************************************************************************)
EXTENDS DecodeStream, DecodeProofs

(* The stream hands decode_insn nothing but halfwords.                     *)
LEMMA StreamType == Spec => []StreamTypeOK
<1>1. Init => StreamTypeOK
  BY DEF Init, StreamTypeOK, Halfword
<1>2. StreamTypeOK /\ [Next]_vars => StreamTypeOK'
  <2> SUFFICES ASSUME StreamTypeOK, [Next]_vars
               PROVE  StreamTypeOK'
    OBVIOUS
  <2>1. CASE FetchNarrow
    <3>1. hw1' \in Halfword
      BY <2>1 DEF FetchNarrow, Halfword
    <3>2. QED
      BY <2>1, <3>1 DEF FetchNarrow, StreamTypeOK
  <2>2. CASE FetchHead
    <3>1. \A h \in Heads : h \in Halfword
      BY StreamAssumption
    <3>2. QED
      BY <2>2, <3>1 DEF FetchHead, StreamTypeOK
  <2>3. CASE FetchSecond
    <3>1. ImmediateSeconds \subseteq Halfword
      BY DEF ImmediateSeconds, Halfword
    <3>2. Seconds \subseteq Halfword
      BY StreamAssumption
    <3>3. QED
      BY <2>3, <3>1, <3>2 DEF FetchSecond, StreamTypeOK
  <2>4. CASE NextInsn
    BY <2>4 DEF NextInsn, StreamTypeOK, Halfword
  <2>5. CASE UNCHANGED vars
    BY <2>5 DEF vars, StreamTypeOK
  <2>6. QED
    BY <2>1, <2>2, <2>3, <2>4, <2>5 DEF Next
<1>3. QED
  BY <1>1, <1>2, PTL DEF Spec

(* No stream of instructions makes the plugin index its histogram or its   *)
(* register table out of bounds.                                           *)
THEOREM TableIndices == Spec => []TableIndicesInRange
<1>1. StreamTypeOK => TableIndicesInRange
  <2> SUFFICES ASSUME StreamTypeOK, Decoded # NotTracked
               PROVE  /\ Decoded.cls \in InsnClass
                      /\ Decoded.reg_a \in 0 .. 15
                      /\ Decoded.kind = "compare" => Decoded.reg_b \in -1 .. 15
    BY DEF TableIndicesInRange
  <2>1. Decoded \in DecodedInsn
    BY DecodeInRange DEF Decoded, StreamTypeOK
  <2>2. QED
    BY <2>1 DEF DecodedInsn, InsnClass
<1>2. QED
  BY <1>1, StreamType, PTL

-----------------------------------------------------------------------------
(* What is out of scope.                                                   *)

(* A field that goes up to bit 15 is a quotient.                           *)
LEMMA TopFields ==
  ASSUME NEW hw \in Halfword
  PROVE  /\ Field(hw, 15, 4) = hw \div 16     /\ Field(hw, 15, 6) = hw \div 64
         /\ Field(hw, 15, 7) = hw \div 128    /\ Field(hw, 15, 8) = hw \div 256
         /\ Field(hw, 15, 9) = hw \div 512    /\ Field(hw, 15, 10) = hw \div 1024
         /\ Field(hw, 15, 11) = hw \div 2048  /\ Field(hw, 15, 12) = hw \div 4096
<1>1. hw \in Nat /\ hw < 65536
  BY DEF Halfword
<1>2. /\ Field(hw, 15, 4) = (hw \div 16) % 4096   /\ Field(hw, 15, 6) = (hw \div 64) % 1024
      /\ Field(hw, 15, 7) = (hw \div 128) % 512   /\ Field(hw, 15, 8) = (hw \div 256) % 256
      /\ Field(hw, 15, 9) = (hw \div 512) % 128   /\ Field(hw, 15, 10) = (hw \div 1024) % 64
      /\ Field(hw, 15, 11) = (hw \div 2048) % 32  /\ Field(hw, 15, 12) = (hw \div 4096) % 16
  BY DEF Field
<1>3. \A n \in Nat, x \in Nat : x < n => x % n = x
  OBVIOUS
<1>4. hw \div 16 < 4096 /\ hw \div 64 < 1024 /\ hw \div 128 < 512 /\ hw \div 256 < 256
  BY <1>1
<1>5. hw \div 512 < 128 /\ hw \div 1024 < 64 /\ hw \div 2048 < 32 /\ hw \div 4096 < 16
  BY <1>1
<1>6. /\ hw \div 16 \in Nat /\ hw \div 64 \in Nat /\ hw \div 128 \in Nat /\ hw \div 256 \in Nat
      /\ hw \div 512 \in Nat /\ hw \div 1024 \in Nat /\ hw \div 2048 \in Nat /\ hw \div 4096 \in Nat
  BY <1>1
<1>7. QED
  BY <1>2, <1>3, <1>4, <1>5, <1>6

(* The fields by which the decoder tells the groups apart overlap: each is *)
(* the next one with a few more bits.                                      *)
LEMMA GroupFields ==
  ASSUME NEW hw \in Halfword
  PROVE  /\ Field(hw, 15, 11) \in Nat /\ Field(hw, 15, 10) \in Nat /\ Field(hw, 15, 8) \in Nat
         /\ Field(hw, 15, 10) \div 2 = Field(hw, 15, 11)
         /\ Field(hw, 15, 8) \div 8 = Field(hw, 15, 11)
         /\ Field(hw, 15, 8) \div 4 = Field(hw, 15, 10)
         /\ Field(hw, 15, 11) \div 2 = Field(hw, 15, 12)
         /\ Field(hw, 15, 11) % 4 = Field(hw, 12, 11)
         /\ Field(hw, 15, 8) % 4 = Field(hw, 9, 8)
         /\ Field(hw, 15, 6) = 0 => Field(hw, 15, 11) = 0 /\ Field(hw, 10, 6) = 0
<1>1. hw \in Nat
  BY DEF Halfword
<1> USE TopFields
<1>2. Field(hw, 15, 11) \in Nat /\ Field(hw, 15, 10) \in Nat /\ Field(hw, 15, 8) \in Nat
  BY <1>1
<1>3. Field(hw, 15, 10) \div 2 = Field(hw, 15, 11)
  BY <1>1
<1>4. Field(hw, 15, 8) \div 8 = Field(hw, 15, 11) /\ Field(hw, 15, 8) \div 4 = Field(hw, 15, 10)
  BY <1>1
<1>5. Field(hw, 15, 11) \div 2 = Field(hw, 15, 12)
  BY <1>1
<1>6. Field(hw, 12, 11) = (hw \div 2048) % 4 /\ Field(hw, 9, 8) = (hw \div 256) % 4
      /\ Field(hw, 10, 6) = (hw \div 64) % 32
  BY DEF Field
<1>7. hw \div 64 = 0 => hw \div 2048 = 0
  BY <1>1
<1>8. QED
  BY <1>2, <1>3, <1>4, <1>5, <1>6, <1>7

LEMMA NarrowOutOfScope ==
  ASSUME NEW hw \in Halfword, Field(hw, 15, 8) # 68,
         Move16(hw) \/ Load16(hw) \/ Branch16(hw) \/ Other16(hw) \/ Address16(hw)
  PROVE  decode_t16(hw) = NotTracked
<1> DEFINE top5 == Field(hw, 15, 11)
<1>a. /\ top5 \in Nat
      /\ Field(hw, 15, 10) \div 2 = top5 /\ Field(hw, 15, 8) \div 8 = top5
      /\ top5 \div 2 = Field(hw, 15, 12) /\ Field(hw, 15, 10) \in Nat /\ Field(hw, 15, 8) \in Nat
  BY GroupFields
<1>1. CASE Field(hw, 15, 6) = 0
  BY <1>1, GroupFields DEF decode_t16, ShiftImmediate16
<1>2. CASE top5 = 4
  BY <1>2, GroupFields DEF decode_t16, Immediate8
<1>3. CASE Field(hw, 15, 8) = 70
  BY <1>3, GroupFields DEF decode_t16, HighRegister16
<1>4. CASE Field(hw, 15, 12) = 5 /\ Field(hw, 11, 9) >= 3
  BY <1>4, <1>a DEF decode_t16, StoreRegisterOffset16
<1>5. CASE top5 \in {9, 13, 15, 17, 19, 28} \/ Field(hw, 15, 12) \in {10, 11, 12, 13}
  BY <1>5, <1>a DEF decode_t16
<1>6. CASE Field(hw, 15, 8) = 71
  BY <1>6, GroupFields DEF decode_t16
<1>7. CASE Field(hw, 15, 8) = 176
  BY <1>7, GroupFields DEF decode_t16
<1>8. QED
  BY <1>1, <1>2, <1>3, <1>4, <1>5, <1>6, <1>7
     DEF Move16, Load16, Branch16, Other16, Address16

(* The one group where the decoder counts what is out of scope: ADD with   *)
(* high registers, which it drops for the destinations SP and PC only.     *)
LEMMA HighAdd ==
  ASSUME NEW hw \in Halfword, Field(hw, 15, 8) = 68
  PROVE  LET d == 8 * Field(hw, 7, 7) + Field(hw, 2, 0)
         IN decode_t16(hw) = IF d \in {13, 15} THEN NotTracked ELSE Writeback("ADD", d)
<1>1. Field(hw, 15, 11) = 8 /\ Field(hw, 15, 10) = 17 /\ Field(hw, 9, 8) = 0
  BY GroupFields
<1>2. decode_t16(hw) = HighRegister16(hw)
  <2>1. /\ Field(hw, 15, 8) \in 68 .. 70 /\ Field(hw, 15, 10) # 16
        /\ Field(hw, 15, 11) \notin 0 .. 2 /\ Field(hw, 15, 11) # 3
        /\ Field(hw, 15, 11) \notin 4 .. 7
    BY <1>1
  <2>2. /\ Field(hw, 15, 12) # 5 /\ Field(hw, 15, 11) # 12 /\ Field(hw, 15, 11) # 14
        /\ Field(hw, 15, 11) # 16 /\ Field(hw, 15, 11) # 18
    BY <1>1, GroupFields
  <2> QED
    BY <2>1, <2>2 DEF decode_t16
<1> QED
  BY <1>1, <1>2 DEF HighRegister16

LEMMA AddressAdds ==
  ASSUME NEW hw \in Halfword, Field(hw, 15, 8) = 68,
         Move16(hw) \/ Load16(hw) \/ Branch16(hw) \/ Other16(hw) \/ Address16(hw)
  PROVE  (decode_t16(hw) # NotTracked) = (AddsSP(hw) \/ AddsPC(hw))
<1> DEFINE d == 8 * Field(hw, 7, 7) + Field(hw, 2, 0)
           m == Field(hw, 6, 3)
<1>1. Field(hw, 15, 11) = 8 /\ Field(hw, 15, 12) = 4 /\ Field(hw, 15, 6) # 0
  BY GroupFields
<1>2. {m, d} \cap {13, 15} # {}
  BY <1>1 DEF Move16, Load16, Branch16, Other16, Address16
<1>3. decode_t16(hw) = IF d \in {13, 15} THEN NotTracked ELSE Writeback("ADD", d)
  BY HighAdd
<1>4. AddsSP(hw) \/ AddsPC(hw) <=> d \notin {13, 15} /\ m \in {13, 15}
  BY DEF AddsSP, AddsPC
<1>5. \A x : Writeback("ADD", x) # NotTracked
  <2> TAKE x
  <2>1. Writeback("ADD", x).kind = "writeback" /\ NotTracked.kind = "none"
    BY DEF Writeback, NotTracked
  <2> QED
    BY <2>1
<1> HIDE DEF d, m
<1>6. decode_t16(hw) # NotTracked <=> d \notin {13, 15}
  BY <1>3, <1>5
<1> QED
  BY <1>2, <1>4, <1>6

LEMMA WideOutOfScope ==
  ASSUME NEW h1 \in Halfword, NEW h2 \in Halfword,
         Move32(h1, h2) \/ Address32(h1, h2) \/ Load32(h1) \/ Multiple32(h1)
  PROVE  decode_t32(h1, h2) = NotTracked
<1>1. /\ Field(h1, 15, 7) \div 4 = Field(h1, 15, 9)
      /\ Field(h1, 15, 9) \div 4 = Field(h1, 15, 11)
      /\ Field(h1, 15, 4) \div 32 = Field(h1, 15, 9)
      /\ Field(h1, 15, 4) % 2 = Field(h1, 4, 4)
      /\ Field(h1, 15, 9) % 2 = Field(h1, 9, 9)
  <2>1. h1 \in Nat
    BY DEF Halfword
  <2>2. (h1 \div 128) \div 4 = h1 \div 512 /\ (h1 \div 512) \div 4 = h1 \div 2048
    BY <2>1
  <2>3. (h1 \div 16) \div 32 = h1 \div 512
    BY <2>1
  <2>4. Field(h1, 4, 4) = (h1 \div 16) % 2 /\ Field(h1, 9, 9) = (h1 \div 512) % 2
    BY DEF Field
  <2>5. QED
    BY <2>2, <2>3, <2>4, TopFields
<1>2. Field(h1, 15, 7) \in Nat /\ Field(h1, 15, 9) \in Nat /\ Field(h1, 15, 4) \in Nat
  <2>1. h1 \in Nat
    BY DEF Halfword
  <2>2. QED
    BY <2>1, TopFields
<1>3. CASE Load32(h1)
  BY <1>1, <1>2, <1>3 DEF Load32, decode_t32
<1>4. CASE Multiple32(h1)
  BY <1>1, <1>2, <1>4 DEF Multiple32, decode_t32
(* The two groups of data processing.                                      *)
<1>5. CASE Immediate32(h1)
  <2>1. Field(h1, 15, 7) # 500 /\ Field(h1, 15, 9) # 117
    BY <1>1, <1>2, <1>5 DEF Immediate32
  <2>2. decode_t32(h1, h2) = ImmediateForm32(h1, h2)
    <3>1. Field(h1, 15, 4) \notin {3872, 3936, 3882, 3946, 3968, 3970, 3972, 3976, 3978,
                                  3980, 4016, 4025, 4027}
      BY <1>1, <1>2, <1>5 DEF Immediate32
    <3> QED
      BY <1>5, <2>1, <3>1 DEF decode_t32, Immediate32
  <2>3. CASE Field(h1, 8, 5) = 2 /\ Field(h1, 3, 0) = 15
    BY <2>2, <2>3 DEF ImmediateForm32, decode_t32_dpi_common
  <2>4. CASE /\ Field(h1, 8, 5) \in {8, 13} /\ Field(h1, 3, 0) = 13
             /\ ~(Field(h1, 4, 4) = 1 /\ Field(h2, 11, 8) = 15)
    BY <2>2, <2>4 DEF ImmediateForm32, decode_t32_dpi_common
  <2>5. Field(h1, 15, 4) \notin {3876, 3940, 3884, 3948, 3872, 3936, 3882, 3946}
    BY <1>1, <1>2, <1>5 DEF Immediate32
  <2>6. ~Load32(h1) /\ ~Multiple32(h1)
    BY <1>1, <1>2, <1>5 DEF Immediate32, Load32, Multiple32
  <2> QED
    BY <2>3, <2>4, <2>5, <2>6 DEF Move32, Address32
<1>6. CASE Field(h1, 15, 9) = 117
  <2>1. Field(h1, 15, 7) # 500 /\ Field(h1, 15, 11) # 30
    BY <1>1, <1>2, <1>6
  <2>2. decode_t32(h1, h2) = RegisterForm32(h1, h2)
    <3>1. Field(h1, 15, 4) \notin {3872, 3936, 3882, 3946, 3968, 3970, 3972, 3976, 3978,
                                  3980, 4016, 4025, 4027}
      BY <1>1, <1>2, <1>6
    <3> QED
      BY <1>6, <2>1, <3>1 DEF decode_t32
  <2>3. CASE /\ Field(h1, 8, 5) = 2 /\ Field(h1, 3, 0) = 15
             /\ Field(h2, 14, 12) = 0 /\ Field(h2, 7, 4) = 0
    <3>1. Field(h2, 7, 6) = 0 /\ Field(h2, 5, 4) = 0
      <4>1. h2 \in Nat
        BY DEF Halfword
      <4>2. /\ Field(h2, 7, 4) = (h2 \div 16) % 16 /\ Field(h2, 7, 6) = (h2 \div 64) % 4
            /\ Field(h2, 5, 4) = (h2 \div 16) % 4 /\ h2 \div 64 = (h2 \div 16) \div 4
        BY <4>1 DEF Field
      <4>3. \A n \in Nat : n % 16 = 0 => n % 4 = 0 /\ (n \div 4) % 4 = 0
        OBVIOUS
      <4>4. h2 \div 16 \in Nat
        BY <4>1
      <4> QED
        BY <2>3, <4>2, <4>3, <4>4
    <3> QED
      BY <2>2, <2>3, <3>1 DEF RegisterForm32
  <2>4. CASE /\ Field(h1, 8, 5) \in {8, 13} /\ Field(h1, 3, 0) = 13
             /\ ~(Field(h1, 4, 4) = 1 /\ Field(h2, 11, 8) = 15)
    BY <2>2, <2>4 DEF RegisterForm32, decode_t32_dpi_common
  <2>5. Field(h1, 15, 4) \notin {3876, 3940, 3884, 3948, 3872, 3936, 3882, 3946}
    BY <1>1, <1>2, <1>6
  <2>6. ~Load32(h1) /\ ~Multiple32(h1) /\ ~Immediate32(h1)
    BY <1>6, <2>1 DEF Load32, Multiple32, Immediate32
  <2> QED
    BY <2>3, <2>4, <2>5, <2>6 DEF Move32, Address32
(* MOVW, MOVT, ADR, and ADDW and SUBW of SP.                               *)
<1>7. CASE /\ Field(h1, 15, 9) # 117 /\ ~Immediate32(h1)
           /\ Move32(h1, h2) \/ Address32(h1, h2)
  <2>1. /\ Field(h1, 15, 7) # 500
        /\ \/ Field(h1, 15, 4) \in {3876, 3940, 3884, 3948}
           \/ Field(h1, 15, 4) \in {3872, 3936, 3882, 3946} /\ Field(h1, 3, 0) \in {13, 15}
    BY <1>1, <1>2, <1>7 DEF Move32, Address32
  <2>2. ~(Field(h1, 15, 11) = 30 /\ Field(h1, 9, 9) = 0)
    BY <1>7 DEF Immediate32
  <2> QED
    BY <1>7, <2>1, <2>2 DEF decode_t32, PlainImmediate32
<1>8. QED
  BY <1>3, <1>4, <1>5, <1>6, <1>7

(* Moves, loads, short branches, multi-register transfers and address      *)
(* formations are left out whichever registers and second halfwords they   *)
(* name, the short ADD Rd, SP and ADD Rd, PC excepted, which are counted.  *)
THEOREM NothingElseOutOfScope == Spec => []OnlyAddressAddsCounted
<1>1. StreamTypeOK => OnlyAddressAddsCounted
  <2> SUFFICES ASSUME StreamTypeOK
               PROVE  OnlyAddressAddsCounted
    OBVIOUS
  <2>1. hw1 \in Halfword /\ hw2 \in Halfword
    BY DEF StreamTypeOK
  <2>2. IsNarrow => Decoded = decode_t16(hw1)
    BY DEF Decoded, IsNarrow, IsWide, decode_insn
  <2>3. IsWide => Decoded = decode_t32(hw1, hw2)
    BY DEF Decoded, IsNarrow, IsWide, decode_insn
  <2>4. ASSUME IsNarrow,
               \/ Move16(hw1) \/ Load16(hw1) \/ Branch16(hw1) \/ Other16(hw1)
               \/ Address16(hw1)
        PROVE  (Decoded # NotTracked) = (AddsSP(hw1) \/ AddsPC(hw1))
    <3>1. CASE Field(hw1, 15, 8) = 68
      BY <2>1, <2>2, <2>4, <3>1, AddressAdds
    <3>2. CASE Field(hw1, 15, 8) # 68
      <4>1. ~AddsSP(hw1) /\ ~AddsPC(hw1)
        BY <3>2 DEF AddsSP, AddsPC
      <4>2. Decoded = NotTracked
        BY <2>1, <2>2, <2>4, <3>2, NarrowOutOfScope
      <4> QED
        BY <4>1, <4>2
    <3> QED
      BY <3>1, <3>2
  <2>5. QED
    BY <2>1, <2>3, <2>4, WideOutOfScope DEF OnlyAddressAddsCounted
<1>2. QED
  BY <1>1, StreamType, PTL

-----------------------------------------------------------------------------
(* Modified immediates.                                                    *)

(* The 1 bits of a byte.                                                   *)
LEMMA ByteBitsLow ==
  ASSUME NEW x \in 0 .. 255
  PROVE  OneBits(x) \subseteq 0 .. 7
<1>1. ASSUME NEW b \in 8 .. 15
      PROVE  Field(x, b, b) = 0
  <2>1. 2^b \in Nat /\ 2^b >= 256
    <3>1. b \in {8, 9, 10, 11, 12, 13, 14, 15}
      OBVIOUS
    <3>2. 2^b \in {2^8, 2^9, 2^10, 2^11, 2^12, 2^13, 2^14, 2^15}
      BY <3>1, Zenon
    <3>3. \A p \in {2^8, 2^9, 2^10, 2^11, 2^12, 2^13, 2^14, 2^15} : p \in Nat /\ p >= 256
      OBVIOUS
    <3>4. QED
      BY <3>2, <3>3
  <2>2. \A n \in Nat : n >= 256 => x \div n = 0
    OBVIOUS
  <2>3. Field(x, b, b) = (x \div 2^b) % 2
    BY DEF Field
  <2>4. QED
    BY <2>1, <2>2, <2>3
<1>2. QED
  BY <1>1 DEF OneBits

LEMMA Immediate ==
  ASSUME NEW imm12 \in 0 .. 4095
  PROVE  thumb_expand_imm(imm12) = ArchExpandImm(imm12)
<1> DEFINE low == OneBits(Field(imm12, 7, 0))
           sel == Field(imm12, 11, 8)
           rot == Field(imm12, 11, 7)
<1>1. low \subseteq 0 .. 7
  <2>1. Field(imm12, 7, 0) \in 0 .. 255
    BY DEF Field
  <2>2. QED
    BY <2>1, ByteBitsLow
<1>2. sel \in 0 .. 15 /\ rot \in 0 .. 31 /\ rot \div 2 = sel
  <2>1. sel = (imm12 \div 256) % 16 /\ rot = (imm12 \div 128) % 32
    BY DEF Field
  <2> HIDE DEF low, sel, rot
  <2>2. imm12 \div 256 \in 0 .. 15 /\ imm12 \div 128 \in 0 .. 31
    <3>1. imm12 \div 256 \in 0 .. 15
      OBVIOUS
    <3>2. imm12 \div 128 \in 0 .. 31
      OBVIOUS
    <3>3. QED
      BY <3>1, <3>2
  <2>3. sel = imm12 \div 256 /\ rot = imm12 \div 128
    <3> DEFINE a == imm12 \div 256
               b == imm12 \div 128
    <3>1. a \in 0 .. 15 /\ b \in 0 .. 31
      BY <2>2
    <3>2. sel = a % 16 /\ rot = b % 32
      BY <2>1
    <3> HIDE DEF sel, rot, a, b
    <3>3. a % 16 = a /\ b % 32 = b
      BY <3>1
    <3>4. sel = a /\ rot = b
      BY <3>2, <3>3
    <3>5. QED
      BY <3>4 DEF a, b
  <2>4. (imm12 \div 128) \div 2 = imm12 \div 256
    OBVIOUS
  <2>5. QED
    BY <2>2, <2>3, <2>4
<1>3. /\ thumb_expand_imm(imm12) =
            CASE sel = 0 -> low
              [] sel = 1 -> CopiesAt(low, {0, 16})
              [] sel = 2 -> CopiesAt(low, {8, 24})
              [] sel = 3 -> CopiesAt(low, {0, 8, 16, 24})
              [] OTHER   -> ShiftRight(low \cup {7}, rot) \cup ShiftLeft(low \cup {7}, 32 - rot)
      /\ ArchExpandImm(imm12) =
            {p \in 0 .. 31 :
               CASE sel = 0 -> p \in low
                 [] sel = 1 -> p % 16 \in low
                 [] sel = 2 -> (p % 16) - 8 \in low
                 [] sel = 3 -> p % 8 \in low
                 [] OTHER -> (p + rot) % 32 \in low \cup {7}}
  BY DEF thumb_expand_imm, ArchExpandImm
<1> HIDE DEF low, sel, rot
<1>4. CASE sel = 0
  BY <1>1, <1>3, <1>4
<1>5. CASE sel = 1
  <2>1. CopiesAt(low, {0, 16}) = {p \in 0 .. 31 : p % 16 \in low}
    <3>1. \A p \in 0 .. 31 : p \in CopiesAt(low, {0, 16}) <=> p \in low \/ p - 16 \in low
      BY <1>1 DEF CopiesAt, ShiftLeft
    <3>2. CopiesAt(low, {0, 16}) \subseteq 0 .. 31
      BY DEF CopiesAt, ShiftLeft
    <3>3. QED
      BY <1>1, <3>1, <3>2
  <2>2. QED
    BY <1>3, <1>5, <2>1
<1>6. CASE sel = 2
  <2>1. CopiesAt(low, {8, 24}) = {p \in 0 .. 31 : (p % 16) - 8 \in low}
    <3>1. \A p \in 0 .. 31 : p \in CopiesAt(low, {8, 24}) <=> p - 8 \in low \/ p - 24 \in low
      BY <1>1 DEF CopiesAt, ShiftLeft
    <3>2. CopiesAt(low, {8, 24}) \subseteq 0 .. 31
      BY DEF CopiesAt, ShiftLeft
    <3>3. QED
      BY <1>1, <3>1, <3>2
  <2>2. QED
    BY <1>3, <1>6, <2>1
<1>7. CASE sel = 3
  <2> DEFINE offsets == {0, 8, 16, 24}
  <2>1. CopiesAt(low, offsets) = {p \in 0 .. 31 : p % 8 \in low}
    <3>1. \A p \in 0 .. 31 : p \in CopiesAt(low, offsets)
            <=> p \in low \/ p - 8 \in low \/ p - 16 \in low \/ p - 24 \in low
      BY <1>1 DEF CopiesAt, ShiftLeft
    <3>2. CopiesAt(low, offsets) \subseteq 0 .. 31
      BY DEF CopiesAt, ShiftLeft
    <3>3. QED
      BY <1>1, <3>1, <3>2
  <2>2. QED
    BY <1>3, <1>7, <2>1
<1>8. CASE sel \notin 0 .. 3
  <2> DEFINE eight == low \cup {7}
             shifted == ShiftRight(eight, rot) \cup ShiftLeft(eight, 32 - rot)
  <2>1. eight \subseteq 0 .. 7 /\ rot \in 8 .. 31
    BY <1>1, <1>2, <1>8
  <2> HIDE DEF eight
  <2>2. \A p \in 0 .. 31 : p \in shifted <=> p + rot \in eight \/ p + rot - 32 \in eight
    BY <2>1 DEF ShiftLeft, ShiftRight
  <2>3. shifted \subseteq 0 .. 31
    BY DEF ShiftLeft, ShiftRight
  <2>4. \A p \in 0 .. 31 : (p + rot) % 32 = IF p + rot < 32 THEN p + rot ELSE p + rot - 32
    BY <2>1
  <2>5. shifted = {p \in 0 .. 31 : (p + rot) % 32 \in eight}
    <3> HIDE DEF shifted
    <3>1. \A p \in 0 .. 31 : p \in shifted <=> (p + rot) % 32 \in eight
      <4> SUFFICES ASSUME NEW p \in 0 .. 31
                   PROVE  p \in shifted <=> (p + rot) % 32 \in eight
        OBVIOUS
      <4>1. CASE p + rot < 32
        <5>1. (p + rot) % 32 = p + rot
          BY <2>4, <4>1
        <5>2. p + rot - 32 \notin eight
          BY <2>1, <4>1
        <5>3. QED
          BY <2>2, <5>1, <5>2
      <4>2. CASE ~(p + rot < 32)
        <5>1. (p + rot) % 32 = p + rot - 32
          BY <2>4, <4>2
        <5>2. p + rot \notin eight
          BY <2>1, <4>2
        <5>3. QED
          BY <2>2, <5>1, <5>2
      <4>3. QED
        BY <4>1, <4>2
    <3> DEFINE wrapped == {p \in 0 .. 31 : (p + rot) % 32 \in eight}
    <3>2. shifted \subseteq wrapped
      BY <2>3, <3>1
    <3>3. wrapped \subseteq shifted
      BY <3>1
    <3> HIDE DEF wrapped
    <3>4. shifted = wrapped
      BY <3>2, <3>3
    <3>5. QED
      BY <3>4 DEF wrapped
  <2>6. /\ sel # 0 /\ sel # 1 /\ sel # 2 /\ sel # 3
    BY <1>8
  <2>7. thumb_expand_imm(imm12) = shifted
    BY <1>3, <2>6 DEF eight
  <2>8. ArchExpandImm(imm12) = {p \in 0 .. 31 : (p + rot) % 32 \in eight}
    BY <1>3, <2>6 DEF eight
  <2>9. QED
    BY <2>5, <2>7, <2>8
<1>9. QED
  BY <1>2, <1>4, <1>5, <1>6, <1>7, <1>8

(* The second halfwords the stream offers after TST.W r0, #imm.            *)
AfterTst == stage = "wide" /\ IsTstR0(hw1) => hw2 \in ImmediateSeconds

LEMMA TstSeconds == Spec => []AfterTst
<1>1. Init => AfterTst
  BY DEF Init, AfterTst
<1>2. AfterTst /\ [Next]_vars => AfterTst'
  BY DEF AfterTst, Next, FetchNarrow, FetchHead, FetchSecond, NextInsn, vars
<1>3. QED
  BY <1>1, <1>2, PTL DEF Spec

(* TST.W r0, #imm goes through the modified-immediate form with its flags  *)
(* set and no destination, in either value of the bit i.                   *)
LEMMA TstIsCompare ==
  ASSUME NEW h1, IsTstR0(h1), NEW h2 \in ImmediateSeconds
  PROVE  LET imm12 == 2048 * Field(h1, 10, 10) + 256 * Field(h2, 14, 12) + Field(h2, 7, 0)
         IN /\ imm12 \in 0 .. 4095
            /\ decode_t32(h1, h2) = Compare("TST", 0, ImmOperand(thumb_expand_imm(imm12)))
<1> DEFINE imm12 == 2048 * Field(h1, 10, 10) + 256 * Field(h2, 14, 12) + Field(h2, 7, 0)
<1>1. /\ Field(h1, 15, 7) \in {480, 488} /\ Field(h1, 15, 9) \in {120, 122}
      /\ Field(h1, 15, 11) = 30 /\ Field(h1, 9, 9) = 0 /\ Field(h1, 10, 10) \in {0, 1}
      /\ Field(h1, 8, 5) = 0 /\ Field(h1, 4, 4) = 1 /\ Field(h1, 3, 0) = 0
  BY DEF IsTstR0, Field
<1>2. /\ Field(h2, 11, 8) = 15
      /\ Field(h2, 14, 12) \in 0 .. 7 /\ Field(h2, 7, 0) \in 0 .. 255
  <2>1. PICK imm3 \in 0 .. 7, imm8 \in 0 .. 255 : h2 = 4096 * imm3 + 15 * 256 + imm8
    BY DEF ImmediateSeconds
  <2>2. h2 \div 256 = 16 * imm3 + 15
    BY <2>1
  <2>3. Field(h2, 11, 8) = (h2 \div 256) % 16
    BY DEF Field
  <2>4. (16 * imm3 + 15) % 16 = 15
    OBVIOUS
  <2>5. Field(h2, 14, 12) \in 0 .. 7 /\ Field(h2, 7, 0) \in 0 .. 255
    BY <2>1 DEF Field
  <2>6. QED
    BY <2>2, <2>3, <2>4, <2>5
<1>3. imm12 \in 0 .. 4095
  BY <1>1, <1>2
<1>4. decode_t32(h1, h2) = ImmediateForm32(h1, h2)
  <2>1. Field(h1, 15, 4) \in {3841, 3905}
    BY DEF IsTstR0, Field
  <2>2. QED
    BY <1>1, <2>1 DEF decode_t32
<1>5. ImmediateForm32(h1, h2)
        = decode_t32_dpi_common(0, 1, 0, 15, ImmOperand(thumb_expand_imm(imm12)))
  BY <1>1, <1>2 DEF ImmediateForm32
<1>6. \A operand : decode_t32_dpi_common(0, 1, 0, 15, operand) = Compare("TST", 0, operand)
  BY DEF decode_t32_dpi_common
<1>7. decode_t32(h1, h2) = Compare("TST", 0, ImmOperand(thumb_expand_imm(imm12)))
  <2> HIDE DEF imm12
  <2>1. QED
    BY <1>4, <1>5, <1>6
<1>8. QED
  BY <1>3, <1>7

(* The constant a TST is measured against is the one the processor uses,   *)
(* for every modified immediate: replications, and rotations whose bits    *)
(* leave on the right and come back on the left.                           *)
THEOREM ConstantsAsArchitected == Spec => []ImmediatesAsArchitected
<1>1. StreamTypeOK /\ AfterTst => ImmediatesAsArchitected
  <2> SUFFICES ASSUME StreamTypeOK, AfterTst, IsWide, IsTstR0(hw1)
               PROVE  /\ Decoded.kind = "compare"
                      /\ Decoded.imm_b = ArchExpandImm(2048 * Field(hw1, 10, 10)
                                           + 256 * Field(hw2, 14, 12) + Field(hw2, 7, 0))
    BY DEF ImmediatesAsArchitected
  <2> DEFINE imm12 == 2048 * Field(hw1, 10, 10) + 256 * Field(hw2, 14, 12) + Field(hw2, 7, 0)
  <2>1. hw2 \in ImmediateSeconds
    BY DEF AfterTst, IsWide
  <2>2. Decoded = decode_t32(hw1, hw2)
    BY DEF Decoded, IsWide, decode_insn
  <2>3. imm12 \in 0 .. 4095 /\ Decoded = Compare("TST", 0, ImmOperand(thumb_expand_imm(imm12)))
    BY <2>1, <2>2, TstIsCompare
  <2> HIDE DEF imm12
  <2>4. thumb_expand_imm(imm12) = ArchExpandImm(imm12)
    BY <2>3, Immediate
  <2>5. Decoded.kind = "compare" /\ Decoded.imm_b = ArchExpandImm(imm12)
    BY <2>3, <2>4 DEF Compare, ImmOperand
  <2>6. QED
    BY <2>5 DEF imm12
<1>2. QED
  BY <1>1, StreamType, TstSeconds, PTL

-----------------------------------------------------------------------------
(* The two encodings of an instruction.                                    *)

(* A first halfword by its top twelve bits and a register, and a second    *)
(* one by its four digits.                                                 *)
Top   == 0 .. 4095
Digit == 0 .. 15
First(q, r)        == 16 * q + r
Second(t, d, s, m) == 4096 * t + 256 * d + 16 * s + m

(* The fields of a first halfword: its top twelve bits and a register.     *)
LEMMA HeadFields ==
  ASSUME NEW q \in Top, NEW r \in Digit
  PROVE  /\ Field(First(q, r), 15, 4) = q          /\ Field(First(q, r), 3, 0) = r
         /\ Field(First(q, r), 15, 7) = q \div 8   /\ Field(First(q, r), 15, 9) = q \div 32
         /\ Field(First(q, r), 15, 11) = q \div 128
         /\ Field(First(q, r), 8, 5) = (q \div 2) % 16  /\ Field(First(q, r), 4, 4) = q % 2
         /\ Field(First(q, r), 6, 5) = (q \div 2) % 4
         /\ Field(First(q, r), 9, 9) = (q \div 32) % 2 /\ Field(First(q, r), 10, 10) = (q \div 64) % 2
<1> DEFINE h == 16 * q + r
<1>1. h \in Halfword
  BY DEF Halfword, Top, Digit
<1>2. h \div 16 = q /\ h % 16 = r
  BY DEF Top, Digit
<1>3. /\ h \div 128 = q \div 8 /\ h \div 512 = q \div 32 /\ h \div 2048 = q \div 128
      /\ h \div 32 = q \div 2 /\ h \div 1024 = q \div 64
  BY DEF Top, Digit
<1>4. /\ Field(h, 3, 0) = (h \div 1) % 16 /\ Field(h, 8, 5) = (h \div 32) % 16
      /\ Field(h, 4, 4) = (h \div 16) % 2 /\ Field(h, 6, 5) = (h \div 32) % 4
      /\ Field(h, 9, 9) = (h \div 512) % 2 /\ Field(h, 10, 10) = (h \div 1024) % 2
  BY DEF Field
<1>5. h \div 1 = h
  BY DEF Top, Digit
<1>6. /\ Field(h, 15, 4) = h \div 16 /\ Field(h, 15, 7) = h \div 128
      /\ Field(h, 15, 9) = h \div 512 /\ Field(h, 15, 11) = h \div 2048
  BY <1>1, TopFields
<1> HIDE DEF h
<1>7. /\ Field(h, 15, 4) = q          /\ Field(h, 3, 0) = r
      /\ Field(h, 15, 7) = q \div 8   /\ Field(h, 15, 9) = q \div 32
      /\ Field(h, 15, 11) = q \div 128
      /\ Field(h, 8, 5) = (q \div 2) % 16  /\ Field(h, 4, 4) = q % 2
      /\ Field(h, 6, 5) = (q \div 2) % 4
      /\ Field(h, 9, 9) = (q \div 32) % 2 /\ Field(h, 10, 10) = (q \div 64) % 2
  BY <1>2, <1>3, <1>4, <1>5, <1>6
<1> QED
  BY <1>7 DEF h, First

(* The fields of a second halfword, digit by digit.                        *)
LEMMA SecondFields ==
  ASSUME NEW t \in Digit, NEW d \in Digit, NEW s \in Digit, NEW m \in Digit
  PROVE  /\ Field(Second(t, d, s, m), 15, 12) = t        /\ Field(Second(t, d, s, m), 14, 12) = t % 8
         /\ Field(Second(t, d, s, m), 11, 8) = d
         /\ Field(Second(t, d, s, m), 7, 4) = s          /\ Field(Second(t, d, s, m), 7, 6) = s \div 4
         /\ Field(Second(t, d, s, m), 5, 4) = s % 4      /\ Field(Second(t, d, s, m), 3, 0) = m
         /\ Field(Second(t, d, s, m), 7, 0) = 16 * s + m
<1> DEFINE w == 4096 * t + 256 * d + 16 * s + m
<1>1. w \in Halfword
  <2> DEFINE hi == 16 * t + d
             lo == 16 * s + m
  <2>1. hi \in 0 .. 255 /\ lo \in 0 .. 255
    BY DEF Digit
  <2>2. w = 256 * hi + lo
    BY DEF Digit
  <2> HIDE DEF hi, lo, w
  <2>3. 256 * hi + lo \in Halfword
    BY <2>1 DEF Halfword
  <2> QED
    BY <2>2, <2>3
<1>2. w \div 4096 = t /\ w \div 256 = 16 * t + d /\ w \div 16 = 256 * t + 16 * d + s
  BY DEF Top, Digit
<1>3. w \div 64 = 64 * t + 4 * d + s \div 4
  BY DEF Top, Digit
<1>4. /\ Field(w, 15, 12) = w \div 4096 /\ Field(w, 14, 12) = (w \div 4096) % 8
      /\ Field(w, 11, 8) = (w \div 256) % 16 /\ Field(w, 7, 4) = (w \div 16) % 16
      /\ Field(w, 7, 6) = (w \div 64) % 4 /\ Field(w, 5, 4) = (w \div 16) % 4
      /\ Field(w, 3, 0) = (w \div 1) % 16 /\ Field(w, 7, 0) = (w \div 1) % 256
  BY <1>1, TopFields DEF Field
<1>5. w \div 1 = w /\ w % 16 = m /\ w % 256 = 16 * s + m
  BY DEF Top, Digit
<1>6. (16 * t + d) % 16 = d /\ (256 * t + 16 * d + s) % 16 = s
  BY DEF Top, Digit
<1>7. (64 * t + 4 * d + s \div 4) % 4 = s \div 4 /\ (256 * t + 16 * d + s) % 4 = s % 4
  BY DEF Top, Digit
<1> HIDE DEF w
<1>8. /\ Field(w, 15, 12) = t        /\ Field(w, 14, 12) = t % 8
      /\ Field(w, 11, 8) = d
      /\ Field(w, 7, 4) = s          /\ Field(w, 7, 6) = s \div 4
      /\ Field(w, 5, 4) = s % 4      /\ Field(w, 3, 0) = m
      /\ Field(w, 7, 0) = 16 * s + m
  BY <1>2, <1>3, <1>4, <1>5, <1>6, <1>7
<1> QED
  BY <1>8 DEF w, Second

(* What decode_t32 makes of each of its groups.                            *)
LEMMA WideRegister ==
  ASSUME NEW q \in Top, q \div 32 = 117, NEW r \in Digit, NEW t \in Digit, NEW d \in Digit,
         NEW s \in Digit, NEW m \in Digit
  PROVE  decode_t32(First(q, r), Second(t, d, s, m)) =
           LET op4  == (q \div 2) % 16
               shim == 4 * (t % 8) + s \div 4
           IN IF op4 = 2 /\ r = 15
              THEN IF s % 4 = 0 /\ shim = 0 THEN NotTracked
                                            ELSE Writeback(ShiftClass[(s % 4) + 1], d)
              ELSE decode_t32_dpi_common(op4, q % 2, r, d, RegOperand(m))
<1> DEFINE h1 == First(q, r)
           h2 == Second(t, d, s, m)
<1>1. q \div 8 # 500 /\ q \div 128 = 29 /\ q \in 3744 .. 3775
  BY DEF Top, Digit
<1>2. /\ Field(h1, 15, 7) = q \div 8 /\ Field(h1, 15, 9) = q \div 32
      /\ Field(h1, 8, 5) = (q \div 2) % 16 /\ Field(h1, 4, 4) = q % 2
      /\ Field(h1, 3, 0) = r /\ Field(h1, 15, 11) = q \div 128 /\ Field(h1, 15, 4) = q
  BY HeadFields
<1>3. /\ Field(h2, 14, 12) = t % 8 /\ Field(h2, 11, 8) = d /\ Field(h2, 7, 6) = s \div 4
      /\ Field(h2, 5, 4) = s % 4 /\ Field(h2, 3, 0) = m
  BY SecondFields
<1> HIDE DEF h1, h2
<1>4. /\ Field(h1, 15, 7) # 500 /\ Field(h1, 15, 9) = 117 /\ Field(h1, 15, 11) # 30
      /\ Field(h1, 15, 4) < 3872
  BY <1>1, <1>2
<1>5. decode_t32(h1, h2) = RegisterForm32(h1, h2)
  BY <1>4 DEF decode_t32
<1> QED
  BY <1>2, <1>3, <1>5 DEF RegisterForm32, h1, h2

LEMMA WideImmediate ==
  ASSUME NEW q \in Top, q \div 128 = 30, (q \div 32) % 2 = 0,
         NEW r \in Digit, NEW t \in Digit, NEW d \in Digit,
         NEW s \in Digit, NEW m \in Digit
  PROVE  decode_t32(First(q, r), Second(t, d, s, m)) =
           decode_t32_dpi_common((q \div 2) % 16, q % 2, r, d,
             ImmOperand(thumb_expand_imm(
               2048 * ((q \div 64) % 2) + 256 * (t % 8) + (16 * s + m))))
<1> DEFINE h1 == First(q, r)
           h2 == Second(t, d, s, m)
<1>1. q \div 8 # 500 /\ q \div 32 # 117
  BY DEF Top, Digit
<1>2. /\ Field(h1, 15, 7) = q \div 8 /\ Field(h1, 15, 9) = q \div 32
      /\ Field(h1, 15, 11) = q \div 128 /\ Field(h1, 9, 9) = (q \div 32) % 2
      /\ Field(h1, 8, 5) = (q \div 2) % 16 /\ Field(h1, 4, 4) = q % 2
      /\ Field(h1, 3, 0) = r /\ Field(h1, 10, 10) = (q \div 64) % 2
  BY HeadFields
<1>3. Field(h2, 14, 12) = t % 8 /\ Field(h2, 11, 8) = d /\ Field(h2, 7, 0) = 16 * s + m
  BY SecondFields
<1>6. Field(h1, 15, 4) = q /\ q \notin {3872, 3936, 3882, 3946, 3968, 3970, 3972, 3976, 3978, 3980, 4016, 4025, 4027}
  BY HeadFields
<1> HIDE DEF h1, h2
<1>4. /\ Field(h1, 15, 7) # 500 /\ Field(h1, 15, 9) # 117
      /\ Field(h1, 15, 11) = 30 /\ Field(h1, 9, 9) = 0
  BY <1>1, <1>2
<1>5. decode_t32(h1, h2) = ImmediateForm32(h1, h2)
  BY <1>4, <1>6 DEF decode_t32
<1> QED
  BY <1>2, <1>3, <1>5 DEF ImmediateForm32, h1, h2

LEMMA WideShift ==
  ASSUME NEW q \in Top, q \div 8 = 500, NEW r \in Digit, NEW t \in Digit, t = 15,
         NEW d \in Digit, NEW s \in Digit, s = 0, NEW m \in Digit
  PROVE  decode_t32(First(q, r), Second(t, d, s, m)) =
           Writeback(ShiftClass[((q \div 2) % 4) + 1], d)
<1> DEFINE h1 == First(q, r)
           h2 == Second(t, d, s, m)
<1>1. q \div 8 = 500
  BY DEF Top, Digit
<1>2. /\ Field(h1, 15, 7) = q \div 8 /\ Field(h1, 6, 5) = (q \div 2) % 4
      /\ Field(h1, 15, 4) = q
      /\ Field(h1, 15, 9) = q \div 32 /\ Field(h1, 15, 11) = q \div 128
  BY HeadFields
<1>3. Field(h2, 15, 12) = t /\ Field(h2, 11, 8) = d /\ Field(h2, 7, 4) = s
  BY SecondFields
<1>4. q \div 32 = 125 /\ q \div 128 = 31
  BY DEF Top, Digit
<1> HIDE DEF h1, h2
<1>5. decode_t32(h1, h2) = Writeback(ShiftClass[Field(h1, 6, 5) + 1], Field(h2, 11, 8))
  BY <1>1, <1>2, <1>3, <1>4 DEF decode_t32
<1> QED
  BY <1>2, <1>3, <1>5 DEF h1, h2

LEMMA WideStore ==
  ASSUME NEW q \in Top, q \in {3968, 3970, 3972, 3976, 3978, 3980}, NEW r \in Digit,
         NEW t \in Digit, NEW x \in Top
  PROVE  decode_t32(First(q, r), 4096 * t + x) = Store(t, StoreSize32(q))
<1> DEFINE h1 == First(q, r)
           h2 == 4096 * t + x
<1>1. q \div 8 # 500 /\ q \div 32 # 117 /\ q \div 128 # 30
  BY DEF Top, Digit
<1>2. /\ Field(h1, 15, 7) = q \div 8 /\ Field(h1, 15, 9) = q \div 32
      /\ Field(h1, 15, 11) = q \div 128 /\ Field(h1, 15, 4) = q
  BY HeadFields
<1>3. Field(h2, 15, 12) = t
  <2>1. h2 \in Halfword /\ h2 \div 4096 = t
    BY DEF Top, Digit, Halfword
  <2> HIDE DEF h2
  <2> QED
    BY <2>1, TopFields
<1> HIDE DEF h1, h2
<1>5. decode_t32(h1, h2) = Store(Field(h2, 15, 12), StoreSize32(q))
  BY <1>1, <1>2 DEF decode_t32
<1> QED
  BY <1>3, <1>5 DEF h1, h2

LEMMA WideMultiply ==
  ASSUME NEW q \in Top, q = 4016, NEW r \in Digit, NEW t \in Digit, NEW d \in Digit,
         NEW s \in Digit, s = 0, NEW m \in Digit
  PROVE  decode_t32(First(q, r), Second(t, d, s, m)) = Writeback("MUL", d)
<1> DEFINE h1 == First(q, r)
           h2 == Second(t, d, s, m)
<1>2. /\ Field(h1, 15, 7) = 502 /\ Field(h1, 15, 9) = 125
      /\ Field(h1, 15, 11) = 31 /\ Field(h1, 15, 4) = 4016
  BY HeadFields
<1>3. Field(h2, 11, 8) = d /\ Field(h2, 7, 4) = s
  BY SecondFields
<1> HIDE DEF h1, h2
<1> QED
  BY <1>2, <1>3 DEF decode_t32, h1, h2

(* The decoder gives both encodings the same answer.                       *)
Same(hw) ==
  WideTwin(hw) # NoTwin => decode_t16(hw) = decode_t32(WideTwin(hw)[1], WideTwin(hw)[2])

LEMMA TwinSame ==
  ASSUME NEW hw, NEW h1, NEW h2, WideTwin(hw) = <<h1, h2>>, decode_t16(hw) = decode_t32(h1, h2)
  PROVE  Same(hw)
BY DEF Same

(* The fields of a 16-bit encoding.                                        *)
LEMMA NarrowFields ==
  ASSUME NEW hw \in Halfword
  PROVE  /\ Field(hw, 2, 0) \in 0 .. 7 /\ Field(hw, 5, 3) \in 0 .. 7 /\ Field(hw, 8, 6) \in 0 .. 7
         /\ Field(hw, 10, 8) \in 0 .. 7 /\ Field(hw, 10, 6) \in 0 .. 31
         /\ Field(hw, 10, 9) \in 0 .. 3 /\ Field(hw, 10, 9) % 2 = Field(hw, 9, 9)
         /\ Field(hw, 15, 9) \div 4 = Field(hw, 15, 11) /\ Field(hw, 15, 9) \div 8 = Field(hw, 15, 12)
         /\ Field(hw, 15, 9) % 8 = Field(hw, 11, 9) /\ Field(hw, 15, 9) \in Nat
<1>1. /\ Field(hw, 2, 0) \in 0 .. 7 /\ Field(hw, 5, 3) \in 0 .. 7 /\ Field(hw, 10, 8) \in 0 .. 7
  BY FieldRange
<1>2. hw \in Nat
  BY DEF Halfword
<1>3. /\ Field(hw, 8, 6) = (hw \div 64) % 8 /\ Field(hw, 10, 6) = (hw \div 64) % 32
      /\ Field(hw, 10, 9) = (hw \div 512) % 4 /\ Field(hw, 9, 9) = (hw \div 512) % 2
      /\ Field(hw, 11, 9) = (hw \div 512) % 8
  BY DEF Field
<1>4. /\ Field(hw, 15, 9) = hw \div 512 /\ Field(hw, 15, 11) = hw \div 2048
      /\ Field(hw, 15, 12) = hw \div 4096
  BY TopFields
<1>5. /\ (hw \div 64) % 8 \in 0 .. 7 /\ (hw \div 64) % 32 \in 0 .. 31
      /\ (hw \div 512) % 4 \in 0 .. 3 /\ hw \div 512 \in Nat
  BY <1>2
<1>6. /\ ((hw \div 512) % 4) % 2 = (hw \div 512) % 2
      /\ (hw \div 512) \div 4 = hw \div 2048 /\ (hw \div 512) \div 8 = hw \div 4096
  BY <1>2
<1> QED
  BY <1>1, <1>3, <1>4, <1>5, <1>6

(* The tests of the decoder's groups exclude each other.                   *)
LEMMA GroupsApart ==
  ASSUME NEW hw \in Halfword
  PROVE  /\ Field(hw, 15, 11) # 8 =>
              /\ Field(hw, 15, 10) # 16 /\ Field(hw, 15, 8) # 68
              /\ Field(hw, 15, 8) # 69 /\ Field(hw, 15, 8) # 70
         /\ Field(hw, 15, 11) # 10 /\ Field(hw, 15, 11) # 11 =>
              /\ Field(hw, 15, 9) # 40 /\ Field(hw, 15, 9) # 41
              /\ Field(hw, 15, 9) # 42 /\ Field(hw, 15, 12) # 5
         /\ Field(hw, 15, 10) = 16 =>
              /\ Field(hw, 15, 8) # 68 /\ Field(hw, 15, 8) # 69 /\ Field(hw, 15, 8) # 70
BY GroupFields, NarrowFields

LEMMA SameShift ==
  ASSUME NEW hw \in Halfword, Field(hw, 15, 11) \in 0 .. 2
  PROVE  Same(hw)
<1> DEFINE top5 == Field(hw, 15, 11)
           imm5 == Field(hw, 10, 6)
           n    == Field(hw, 5, 3)
           d    == Field(hw, 2, 0)
<1>1. top5 \in 0 .. 2 /\ imm5 \in 0 .. 31 /\ n \in 0 .. 7 /\ d \in 0 .. 7
  BY NarrowFields
<1>2. WideTwin(hw) =
        <<59999, 4096 * (imm5 \div 4) + 256 * d + 64 * (imm5 % 4) + 16 * top5 + n>>
  <2>1. /\ top5 # 3 /\ top5 # 4 /\ top5 # 5 /\ top5 # 6 /\ top5 # 7 /\ top5 # 12
        /\ top5 # 14 /\ top5 # 16 /\ top5 # 18
    BY <1>1
  <2> QED
    BY <1>1, <2>1, GroupsApart DEF WideTwin
<1>3. decode_t16(hw) = IF top5 = 0 /\ imm5 = 0 THEN NotTracked
                                               ELSE Writeback(ShiftClass[top5 + 1], d)
  <2>1. Field(hw, 12, 11) = top5
    BY GroupFields
  <2> QED
    BY <2>1, GroupFields DEF decode_t16, ShiftImmediate16
<1> HIDE DEF top5, imm5, n, d
<1>4. d \in Digit /\ n \in Digit
  BY <1>1 DEF Digit
<1>5. PICK q \in Top, r \in Digit, t \in Digit, s \in Digit :
        q = 3749 /\ r = 15 /\ t = imm5 \div 4 /\ s = 4 * (imm5 % 4) + top5
  BY <1>1 DEF Top, Digit
<1>6. WideTwin(hw) = <<First(q, r), Second(t, d, s, n)>>
  BY <1>1, <1>2, <1>5 DEF First, Second
<1>7. q \div 32 = 117 /\ (q \div 2) % 16 = 2
  BY <1>5
<1>8. s % 4 = top5 /\ s \div 4 = imm5 % 4 /\ 4 * (t % 8) + s \div 4 = imm5
  BY <1>1, <1>5
<1>9. decode_t32(First(q, r), Second(t, d, s, n)) =
        IF s % 4 = 0 /\ 4 * (t % 8) + s \div 4 = 0 THEN NotTracked
                                                   ELSE Writeback(ShiftClass[(s % 4) + 1], d)
  BY <1>4, <1>5, <1>7, WideRegister
<1> QED
  BY <1>3, <1>6, <1>8, <1>9, TwinSame

(* The opcode table of the 32-bit forms, away from R15.                    *)
LEMMA Operations ==
  ASSUME NEW op4, NEW flags, NEW rn, NEW rd, NEW operand, rd # 15
  PROVE  LET insn == decode_t32_dpi_common(op4, flags, rn, rd, operand)
         IN /\ op4 = 0 => insn = Writeback("AND", rd)
            /\ op4 = 1 => insn = Writeback("BIC", rd)
            /\ op4 = 2 => insn = IF rn = 15 THEN NotTracked ELSE Writeback("ORR", rd)
            /\ op4 = 3 /\ rn = 15 => insn = Writeback("MVN", rd)
            /\ op4 = 4 => insn = Writeback("EOR", rd)
            /\ op4 = 8 => insn = IF rn = 13 THEN NotTracked ELSE Writeback("ADD", rd)
            /\ op4 = 10 => insn = Writeback("ADC", rd)
            /\ op4 = 11 => insn = Writeback("SBC", rd)
            /\ op4 = 13 /\ rn # 13 => insn = Writeback("SUB", rd)
            /\ op4 = 14 => insn = Writeback("RSB", rd)
BY DEF decode_t32_dpi_common

(* With its flags set and no destination.                                  *)
LEMMA Compares ==
  ASSUME NEW op4, NEW flags, NEW rn, NEW rd, NEW operand, flags = 1, rd = 15
  PROVE  LET insn == decode_t32_dpi_common(op4, flags, rn, rd, operand)
         IN /\ op4 = 0 => insn = Compare("TST", rn, operand)
            /\ op4 = 8 => insn = Compare("CMN", rn, operand)
            /\ op4 = 13 => insn = Compare("CMP", rn, operand)
BY DEF decode_t32_dpi_common

LEMMA SameAddSubtract ==
  ASSUME NEW hw \in Halfword, Field(hw, 15, 11) = 3
  PROVE  Same(hw)
<1> DEFINE op == Field(hw, 10, 9)
           a  == Field(hw, 8, 6)
           n  == Field(hw, 5, 3)
           d  == Field(hw, 2, 0)
<1>1. op \in 0 .. 3 /\ a \in 0 .. 7 /\ n \in 0 .. 7 /\ d \in 0 .. 7
  BY NarrowFields
<1>2. WideTwin(hw) = <<(<<60176, 60336, 61712, 61872>>[op + 1]) + n, 256 * d + a>>
  BY GroupsApart DEF WideTwin
<1>3. decode_t16(hw) = Writeback(IF op % 2 = 1 THEN "SUB" ELSE "ADD", d)
  <2>1. Field(hw, 9, 9) = op % 2
    BY NarrowFields
  <2> QED
    BY <2>1, GroupsApart DEF decode_t16, AddSubtract16
<1> HIDE DEF op, a, n, d
<1>4. /\ d \in Digit /\ n \in Digit /\ a \in Digit
      /\ d # 15 /\ n # 13
  BY <1>1 DEF Digit
<1>5. PICK q \in Top, z \in Digit :
        /\ q = <<3761, 3771, 3857, 3867>>[op + 1]
        /\ z = 0
  BY <1>1 DEF Top, Digit
<1>6. WideTwin(hw) = <<First(q, n), Second(z, d, z, a)>>
  BY <1>1, <1>2, <1>5 DEF First, Second
<1>7. CASE op \in {0, 1}
  <2>1. q \div 32 = 117 /\ (q \div 2) % 16 = (IF op = 1 THEN 13 ELSE 8)
    BY <1>5, <1>7
  <2>2. decode_t32(First(q, n), Second(z, d, z, a)) =
          decode_t32_dpi_common((q \div 2) % 16, q % 2, n, d, RegOperand(a))
    BY <1>4, <1>5, <2>1, WideRegister
  <2>3. decode_t32(First(q, n), Second(z, d, z, a)) = Writeback(IF op = 1 THEN "SUB" ELSE "ADD", d)
    BY <1>4, <1>7, <2>1, <2>2, Operations
  <2>4. op % 2 = 1 <=> op = 1
    BY <1>7
  <2> QED
    BY <1>3, <1>6, <2>3, <2>4, TwinSame
<1>8. CASE op \in {2, 3}
  <2>1. /\ q \div 128 = 30 /\ (q \div 32) % 2 = 0
        /\ (q \div 2) % 16 = (IF op = 3 THEN 13 ELSE 8)
    BY <1>5, <1>8
  <2> DEFINE operand == ImmOperand(thumb_expand_imm(
               2048 * ((q \div 64) % 2) + 256 * (z % 8) + (16 * z + a)))
  <2>2. decode_t32(First(q, n), Second(z, d, z, a)) =
          decode_t32_dpi_common((q \div 2) % 16, q % 2, n, d, operand)
    BY <1>4, <1>5, <2>1, WideImmediate
  <2> HIDE DEF operand
  <2>3. decode_t32(First(q, n), Second(z, d, z, a)) = Writeback(IF op = 3 THEN "SUB" ELSE "ADD", d)
    BY <1>4, <1>8, <2>1, <2>2, Operations
  <2>4. op % 2 = 1 <=> op = 3
    BY <1>8
  <2> QED
    BY <1>3, <1>6, <2>3, <2>4, TwinSame
<1> QED
  BY <1>1, <1>7, <1>8

(* A constant of one byte stands for itself.                               *)
LEMMA ByteConstant ==
  ASSUME NEW x \in 0 .. 255
  PROVE  thumb_expand_imm(x) = OneBits(x)
<1>1. Field(x, 7, 0) = (x \div 1) % 256 /\ Field(x, 11, 8) = (x \div 256) % 16
  BY DEF Field
<1>2. (x \div 1) % 256 = x /\ (x \div 256) % 16 = 0
  OBVIOUS
<1>3. Field(x, 7, 0) = x /\ Field(x, 11, 8) = 0
  BY <1>1, <1>2
<1> QED
  BY <1>3 DEF thumb_expand_imm

LEMMA SameImmediate ==
  ASSUME NEW hw \in Halfword, Field(hw, 15, 11) \in 4 .. 7
  PROVE  Same(hw)
<1> DEFINE op   == Field(hw, 15, 11)
           r8   == Field(hw, 10, 8)
           imm8 == Field(hw, 7, 0)
<1>1. op \in 4 .. 7 /\ r8 \in 0 .. 7 /\ imm8 \in 0 .. 255
  BY FieldRange
<1>2. /\ op = 4 => WideTwin(hw) = <<61535, 256 * r8 + imm8>>
      /\ op = 5 => WideTwin(hw) = <<61872 + r8, 15 * 256 + imm8>>
      /\ op = 6 => WideTwin(hw) = <<61712 + r8, 256 * r8 + imm8>>
      /\ op = 7 => WideTwin(hw) = <<61872 + r8, 256 * r8 + imm8>>
  BY <1>1, GroupsApart DEF WideTwin
<1>3. decode_t16(hw) = CASE op = 4 -> NotTracked
                         [] op = 5 -> Compare("CMP", r8, ImmOperand(OneBits(imm8)))
                         [] op = 6 -> Writeback("ADD", r8)
                         [] op = 7 -> Writeback("SUB", r8)
  <2>1. Field(hw, 12, 11) = op - 4
    BY <1>1, GroupFields
  <2>2. decode_t16(hw) = Immediate8(hw)
    BY <1>1, GroupsApart DEF decode_t16
  <2> QED
    BY <1>1, <2>1, <2>2 DEF Immediate8
<1> HIDE DEF op, r8, imm8
<1>4. PICK q \in Top : q = <<3845, 3867, 3857, 3867>>[op - 3]
  BY <1>1 DEF Top
<1>5. PICK r \in Digit, d \in Digit :
        /\ r = IF op = 4 THEN 15 ELSE r8
        /\ d = IF op = 5 THEN 15 ELSE r8
  BY <1>1 DEF Digit
<1>6. PICK z \in Digit : z = 0
  BY DEF Digit
<1>7. PICK s \in Digit, m \in Digit : 16 * s + m = imm8
  <2>1. imm8 \div 16 \in Digit /\ imm8 % 16 \in Digit
    BY <1>1 DEF Digit
  <2>2. 16 * (imm8 \div 16) + (imm8 % 16) = imm8
    BY <1>1
  <2> QED
    BY <2>1, <2>2
<1>8. WideTwin(hw) = <<First(q, r), Second(z, d, s, m)>>
  BY <1>1, <1>2, <1>4, <1>5, <1>6, <1>7 DEF First, Second
<1>9. /\ q \div 128 = 30 /\ (q \div 32) % 2 = 0 /\ (q \div 64) % 2 = 0 /\ q % 2 = 1
      /\ (q \div 2) % 16 = <<2, 13, 8, 13>>[op - 3]
  BY <1>1, <1>4
<1> DEFINE operand == ImmOperand(thumb_expand_imm(
             2048 * ((q \div 64) % 2) + 256 * (z % 8) + (16 * s + m)))
<1>10. decode_t32(First(q, r), Second(z, d, s, m)) =
        decode_t32_dpi_common((q \div 2) % 16, q % 2, r, d, operand)
  BY <1>9, WideImmediate
<1>11. operand = ImmOperand(OneBits(imm8))
  <2>1. 2048 * ((q \div 64) % 2) + 256 * (z % 8) + (16 * s + m) = imm8
    <3>1. z % 8 = 0
      BY <1>6
    <3> QED
      BY <1>1, <1>7, <1>9, <3>1
  <2> QED
    BY <1>1, <2>1, ByteConstant
<1> HIDE DEF operand
<1>12. CASE op = 5
  <2>1. (q \div 2) % 16 = 13 /\ d = 15 /\ r = r8
    BY <1>5, <1>9, <1>12
  <2>2. decode_t32(First(q, r), Second(z, d, s, m)) = Compare("CMP", r8, operand)
    BY <1>9, <1>10, <2>1, Compares
  <2> QED
    BY <1>3, <1>8, <1>11, <1>12, <2>2, TwinSame
<1>13. CASE op # 5
  <2>1. d # 15 /\ d = r8 /\ r = (IF op = 4 THEN 15 ELSE r8) /\ r8 # 13
    BY <1>1, <1>5, <1>13
  <2>2. decode_t32(First(q, r), Second(z, d, s, m)) =
          CASE op = 4 -> NotTracked
            [] op = 6 -> Writeback("ADD", r8)
            [] op = 7 -> Writeback("SUB", r8)
    <3>1. CASE op = 4
      <4>1. (q \div 2) % 16 = 2
        BY <1>9, <3>1
      <4> QED
        BY <1>10, <2>1, <3>1, <4>1, Operations
    <3>2. CASE op = 6
      <4>1. (q \div 2) % 16 = 8
        BY <1>9, <3>2
      <4> QED
        BY <1>10, <2>1, <3>2, <4>1, Operations
    <3>3. CASE op = 7
      <4>1. (q \div 2) % 16 = 13
        BY <1>9, <3>3
      <4> QED
        BY <1>10, <2>1, <3>3, <4>1, Operations
    <3> QED
      BY <1>1, <1>13, <3>1, <3>2, <3>3
  <2> QED
    BY <1>1, <1>3, <1>8, <1>13, <2>2, TwinSame
<1> QED
  BY <1>12, <1>13

(* The pair that a step has found, in the register form.                   *)
LEMMA RegisterTwin ==
  ASSUME NEW hw, NEW q \in Top, q \div 32 = 117, NEW r \in Digit, NEW t \in Digit,
         NEW d \in Digit, NEW s \in Digit, NEW m \in Digit,
         WideTwin(hw) = <<First(q, r), Second(t, d, s, m)>>,
         (q \div 2) % 16 # 2 \/ r # 15,
         decode_t16(hw) = decode_t32_dpi_common((q \div 2) % 16, q % 2, r, d, RegOperand(m))
  PROVE  Same(hw)
<1>1. decode_t32(First(q, r), Second(t, d, s, m)) =
        decode_t32_dpi_common((q \div 2) % 16, q % 2, r, d, RegOperand(m))
  BY WideRegister
<1> QED
  BY <1>1, TwinSame

(* The twins of the high-register group.                                   *)
LEMMA HighTwin ==
  ASSUME NEW hw \in Halfword, Field(hw, 15, 8) \in 68 .. 70
  PROVE  LET group == Field(hw, 15, 8)
             d     == 8 * Field(hw, 7, 7) + Field(hw, 2, 0)
             m     == Field(hw, 6, 3)
         IN /\ group = 68 /\ 15 \notin {d, m} /\ m # 13 =>
                 WideTwin(hw) = <<60160 + d, 256 * d + m>>
            /\ group = 68 /\ d \notin {13, 15} /\ m = 13 =>
                 WideTwin(hw) = <<60173, 256 * d + d>>
            /\ group = 68 /\ (15 \in {d, m} \/ {d, m} = {13}) => WideTwin(hw) = NoTwin
            /\ group = 69 => WideTwin(hw) = <<60336 + d, 15 * 256 + m>>
            /\ group = 70 => WideTwin(hw) = <<59983, 256 * d + m>>
<1> DEFINE group == Field(hw, 15, 8)
           d     == 8 * Field(hw, 7, 7) + Field(hw, 2, 0)
           m     == Field(hw, 6, 3)
<1>1. Field(hw, 15, 11) = 8 /\ Field(hw, 15, 10) = 17
  BY GroupFields
<1>2. /\ Field(hw, 15, 11) \notin 0 .. 2 /\ Field(hw, 15, 11) # 3 /\ Field(hw, 15, 11) # 4
      /\ Field(hw, 15, 11) # 5 /\ Field(hw, 15, 11) # 6 /\ Field(hw, 15, 11) # 7
      /\ Field(hw, 15, 11) # 12 /\ Field(hw, 15, 11) # 14 /\ Field(hw, 15, 11) # 16
      /\ Field(hw, 15, 11) # 18 /\ Field(hw, 15, 10) # 16
  BY <1>1
<1>3. Field(hw, 15, 9) # 40 /\ Field(hw, 15, 9) # 41 /\ Field(hw, 15, 9) # 42
  BY <1>1, GroupsApart
<1>4. CASE group = 68 /\ 15 \notin {d, m} /\ m # 13
  <2>1. group # 69 /\ group # 70 /\ {d, m} # {13}
    BY <1>4
  <2>2. WideTwin(hw) = <<60160 + d, 256 * d + m>>
    BY <1>2, <1>3, <1>4, <2>1 DEF WideTwin
  <2> QED
    BY <1>4, <2>1, <2>2
<1>5. CASE group = 68 /\ d \notin {13, 15} /\ m = 13
  <2>1. group # 69 /\ group # 70 /\ {d, m} # {13} /\ 15 \notin {d, m}
    BY <1>5
  <2>2. WideTwin(hw) = <<60173, 256 * d + d>>
    BY <1>2, <1>3, <1>5, <2>1 DEF WideTwin
  <2> QED
    BY <1>5, <2>1, <2>2
<1>6. CASE group = 68 /\ (15 \in {d, m} \/ {d, m} = {13})
  <2>1. group # 69 /\ group # 70
    BY <1>6
  <2>2. WideTwin(hw) = NoTwin
    BY <1>2, <1>3, <1>6, <2>1 DEF WideTwin
  <2> QED
    BY <1>6, <2>1, <2>2
<1>7. CASE group = 69
  <2>1. group # 68 /\ group # 70
    BY <1>7
  <2>2. WideTwin(hw) = <<60336 + d, 15 * 256 + m>>
    BY <1>2, <1>3, <1>7, <2>1 DEF WideTwin
  <2> QED
    BY <1>7, <2>1, <2>2
<1>8. CASE group = 70
  <2>1. group # 68 /\ group # 69
    BY <1>8
  <2>2. WideTwin(hw) = <<59983, 256 * d + m>>
    BY <1>2, <1>3, <1>8, <2>1 DEF WideTwin
  <2> QED
    BY <1>8, <2>1, <2>2
<1> QED
  BY <1>4, <1>5, <1>6, <1>7, <1>8

LEMMA SameHighRegister ==
  ASSUME NEW hw \in Halfword, Field(hw, 15, 8) \in 68 .. 70, ~AddsSP(hw)
  PROVE  Same(hw)
<1> DEFINE group == Field(hw, 15, 8)
           d     == 8 * Field(hw, 7, 7) + Field(hw, 2, 0)
           m     == Field(hw, 6, 3)
<1>1. group \in 68 .. 70 /\ d \in 0 .. 15 /\ m \in 0 .. 15
  BY FieldRange
<1>2. Field(hw, 15, 11) = 8 /\ Field(hw, 15, 10) = 17 /\ Field(hw, 9, 8) = group - 68
  BY GroupFields
<1>3. /\ group = 68 /\ 15 \notin {d, m} /\ m # 13 =>
           WideTwin(hw) = <<60160 + d, 256 * d + m>>
      /\ group = 68 /\ (15 \in {d, m} \/ {d, m} = {13}) => WideTwin(hw) = NoTwin
      /\ group = 69 => WideTwin(hw) = <<60336 + d, 15 * 256 + m>>
      /\ group = 70 => WideTwin(hw) = <<59983, 256 * d + m>>
  BY <1>1, HighTwin
<1>4. /\ group = 68 =>
           decode_t16(hw) = IF d \in {13, 15} THEN NotTracked ELSE Writeback("ADD", d)
      /\ group = 69 => decode_t16(hw) = Compare("CMP", d, RegOperand(m))
      /\ group = 70 => decode_t16(hw) = NotTracked
  <2>1. decode_t16(hw) = HighRegister16(hw)
    BY <1>1, <1>2, GroupsApart DEF decode_t16
  <2> QED
    BY <1>1, <1>2, <2>1 DEF HighRegister16
<1>0. group = 68 /\ m = 13 => d \in {13, 15}
  BY DEF AddsSP
<1> HIDE DEF group, d, m
<1>5. d \in Digit /\ m \in Digit
  BY <1>1 DEF Digit
<1>6. PICK z \in Digit, r \in Digit : z = 0 /\ r = 15
  BY DEF Digit
<1>7. CASE group = 68 /\ 15 \notin {d, m} /\ m # 13
  <2>1. PICK q \in Top : q = 3760
    BY DEF Top
  <2>2. q \div 32 = 117 /\ (q \div 2) % 16 = 8
    BY <2>1
  <2>3. WideTwin(hw) = <<First(q, d), Second(z, d, z, m)>>
    BY <1>1, <1>3, <1>6, <1>7, <2>1 DEF First, Second
  <2>4. d # 15
    BY <1>7
  <2>5. decode_t32_dpi_common((q \div 2) % 16, q % 2, d, d, RegOperand(m))
          = IF d = 13 THEN NotTracked ELSE Writeback("ADD", d)
    BY <2>2, <2>4, Operations
  <2> QED
    BY <1>4, <1>5, <1>7, <2>2, <2>3, <2>4, <2>5, RegisterTwin
<1>8. CASE group = 68 /\ (15 \in {d, m} \/ {d, m} = {13})
  BY <1>3, <1>8 DEF Same
<1>9. CASE group = 69
  <2>1. PICK q \in Top : q = 3771
    BY DEF Top
  <2>2. q \div 32 = 117 /\ (q \div 2) % 16 = 13 /\ q % 2 = 1
    BY <2>1
  <2>3. WideTwin(hw) = <<First(q, d), Second(z, r, z, m)>>
    BY <1>1, <1>3, <1>6, <1>9, <2>1 DEF First, Second
  <2>4. decode_t32_dpi_common((q \div 2) % 16, q % 2, d, r, RegOperand(m))
          = Compare("CMP", d, RegOperand(m))
    BY <1>6, <2>2, Compares
  <2> QED
    BY <1>4, <1>5, <1>9, <2>2, <2>3, <2>4, RegisterTwin
<1>10. CASE group = 70
  <2>1. PICK q \in Top : q = 3748
    BY DEF Top
  <2>2. q \div 32 = 117 /\ (q \div 2) % 16 = 2 /\ z % 4 = 0 /\ 4 * (z % 8) + z \div 4 = 0
    BY <1>6, <2>1
  <2>3. WideTwin(hw) = <<First(q, r), Second(z, d, z, m)>>
    BY <1>1, <1>3, <1>6, <1>10, <2>1 DEF First, Second
  <2>4. decode_t32(First(q, r), Second(z, d, z, m)) = NotTracked
    BY <1>5, <1>6, <2>2, WideRegister
  <2> QED
    BY <1>4, <1>10, <2>3, <2>4, TwinSame
<1> QED
  BY <1>0, <1>1, <1>7, <1>8, <1>9, <1>10

(* ADD Rd, SP is the same instruction in both encodings and is counted in  *)
(* the short one only.                                                     *)
LEMMA SPDiffers ==
  ASSUME NEW hw \in Halfword, AddsSP(hw)
  PROVE  decode_t16(hw) # decode_t32(WideTwin(hw)[1], WideTwin(hw)[2])
<1> DEFINE d == 8 * Field(hw, 7, 7) + Field(hw, 2, 0)
<1>1. d \in 0 .. 15 /\ d \notin {13, 15} /\ Field(hw, 15, 8) = 68 /\ Field(hw, 6, 3) = 13
  BY FieldRange DEF AddsSP
<1>2. Field(hw, 15, 11) = 8 /\ Field(hw, 15, 10) = 17
  BY <1>1, GroupFields
<1>3. WideTwin(hw) = <<60173, 256 * d + d>>
  BY <1>1, HighTwin
<1>4. decode_t16(hw) = Writeback("ADD", d)
  BY <1>1, HighAdd
<1> HIDE DEF d
<1>5. PICK q \in Top, z \in Digit, r \in Digit : q = 3760 /\ z = 0 /\ r = 13
  BY DEF Top, Digit
<1>6. d \in Digit /\ q \div 32 = 117 /\ (q \div 2) % 16 = 8
  BY <1>1, <1>5 DEF Digit
<1>7. 60173 = First(q, r) /\ 256 * d + d = Second(z, d, z, d)
  BY <1>1, <1>5 DEF First, Second
<1>8. decode_t32(First(q, r), Second(z, d, z, d))
        = decode_t32_dpi_common((q \div 2) % 16, q % 2, r, d, RegOperand(d))
  BY <1>6, WideRegister
<1>9. decode_t32_dpi_common((q \div 2) % 16, q % 2, r, d, RegOperand(d)) = NotTracked
  BY <1>1, <1>5, <1>6, Operations
<1>10. Writeback("ADD", d) # NotTracked
  <2>1. Writeback("ADD", d).kind = "writeback" /\ NotTracked.kind = "none"
    BY DEF Writeback, NotTracked
  <2> QED
    BY <2>1
<1> QED
  BY <1>3, <1>4, <1>7, <1>8, <1>9, <1>10

(* The tables of the data-processing instructions, row by row.             *)
LEMMA DataProcessingRows ==
  ASSUME NEW hw \in Halfword, Field(hw, 15, 10) = 16
  PROVE  LET op == Field(hw, 9, 6)
             m  == Field(hw, 5, 3)
             d  == Field(hw, 2, 0)
         IN /\ op \in 0 .. 15 /\ m \in 0 .. 7 /\ d \in 0 .. 7
            /\ WideTwin(hw) = WideDataProcessing(op, m, d)
            /\ decode_t16(hw) = CASE op = 8  -> Compare("TST", d, RegOperand(m))
                                  [] op = 10 -> Compare("CMP", d, RegOperand(m))
                                  [] op = 11 -> Compare("CMN", d, RegOperand(m))
                                  [] OTHER   -> Writeback(DataProcessingMap[op + 1], d)
<1>1. Field(hw, 15, 11) = 8
  BY GroupFields
<1>2. WideTwin(hw) = WideDataProcessing(Field(hw, 9, 6), Field(hw, 5, 3), Field(hw, 2, 0))
  BY <1>1, GroupsApart DEF WideTwin
<1>3. decode_t16(hw) = DataProcessing16(hw)
  BY <1>1, GroupsApart DEF decode_t16
<1> QED
  BY <1>2, <1>3, FieldRange DEF DataProcessing16

LEMMA SameDataProcessing ==
  ASSUME NEW hw \in Halfword, Field(hw, 15, 10) = 16
  PROVE  Same(hw)
<1> DEFINE op == Field(hw, 9, 6)
           m  == Field(hw, 5, 3)
           d  == Field(hw, 2, 0)
<1>1. op \in 0 .. 15 /\ m \in 0 .. 7 /\ d \in 0 .. 7
  BY DataProcessingRows
<1>2. WideTwin(hw) = WideDataProcessing(op, m, d)
  BY DataProcessingRows
<1>3. decode_t16(hw) = CASE op = 8  -> Compare("TST", d, RegOperand(m))
                         [] op = 10 -> Compare("CMP", d, RegOperand(m))
                         [] op = 11 -> Compare("CMN", d, RegOperand(m))
                         [] OTHER   -> Writeback(DataProcessingMap[op + 1], d)
  BY DataProcessingRows
<1> HIDE DEF op, m, d
<1>4. d \in Digit /\ m \in Digit /\ d # 13 /\ d # 15
  BY <1>1 DEF Digit
<1>5. PICK z \in Digit, f \in Digit : z = 0 /\ f = 15
  BY DEF Digit
(* Register forms with a destination.                                      *)
<1>6. CASE op \in {0, 1, 5, 6, 12, 14}
  <2>1. PICK q \in Top : q = CASE op = 0 -> 3745 [] op = 1 -> 3753 [] op = 5 -> 3765
                             [] op = 6 -> 3767 [] op = 12 -> 3749 [] op = 14 -> 3747
    BY <1>6 DEF Top
  <2>2. /\ q \div 32 = 117
        /\ (q \div 2) % 16 = CASE op = 0 -> 0 [] op = 1 -> 4 [] op = 5 -> 10
                                [] op = 6 -> 11 [] op = 12 -> 2 [] op = 14 -> 1
    BY <1>6, <2>1
  <2>3. WideTwin(hw) = <<First(q, d), Second(z, d, z, m)>>
    BY <1>1, <1>2, <1>5, <1>6, <2>1 DEF WideDataProcessing, First, Second
  <2>4. decode_t16(hw) = Writeback(CASE op = 0 -> "AND" [] op = 1 -> "EOR" [] op = 5 -> "ADC"
                                     [] op = 6 -> "SBC" [] op = 12 -> "ORR" [] op = 14 -> "BIC", d)
    BY <1>3, <1>6 DEF DataProcessingMap
  <2>5. decode_t16(hw)
          = decode_t32_dpi_common((q \div 2) % 16, q % 2, d, d, RegOperand(m))
    BY <1>4, <1>6, <2>2, <2>4, Operations
  <2> QED
    BY <1>4, <1>5, <2>2, <2>3, <2>5, RegisterTwin
(* Compares: no destination.                                               *)
<1>7. CASE op \in {8, 10, 11}
  <2>1. PICK q \in Top : q = CASE op = 8 -> 3745 [] op = 10 -> 3771 [] op = 11 -> 3761
    BY <1>7 DEF Top
  <2>2. /\ q \div 32 = 117 /\ q % 2 = 1
        /\ (q \div 2) % 16 = CASE op = 8 -> 0 [] op = 10 -> 13 [] op = 11 -> 8
    BY <1>7, <2>1
  <2>3. WideTwin(hw) = <<First(q, d), Second(z, f, z, m)>>
    BY <1>1, <1>2, <1>5, <1>7, <2>1 DEF WideDataProcessing, First, Second
  <2>4. decode_t16(hw)
          = decode_t32_dpi_common((q \div 2) % 16, q % 2, d, f, RegOperand(m))
    BY <1>3, <1>5, <1>7, <2>2, Compares
  <2> QED
    BY <1>4, <1>5, <2>2, <2>3, <2>4, RegisterTwin
(* Shifts by a register.                                                   *)
<1>8. CASE op \in {2, 3, 4, 7}
  <2>1. PICK q \in Top : q = CASE op = 2 -> 4001 [] op = 3 -> 4003 [] op = 4 -> 4005 [] op = 7 -> 4007
    BY <1>8 DEF Top
  <2>2. /\ q \div 8 = 500
        /\ (q \div 2) % 4 = CASE op = 2 -> 0 [] op = 3 -> 1 [] op = 4 -> 2 [] op = 7 -> 3
    BY <1>8, <2>1
  <2>3. WideTwin(hw) = <<First(q, d), Second(f, d, z, m)>>
    BY <1>1, <1>2, <1>5, <1>8, <2>1 DEF WideDataProcessing, First, Second
  <2>4. decode_t16(hw) = Writeback(ShiftClass[((q \div 2) % 4) + 1], d)
    BY <1>3, <1>8, <2>2 DEF DataProcessingMap, ShiftClass
  <2>5. decode_t32(First(q, d), Second(f, d, z, m)) = Writeback(ShiftClass[((q \div 2) % 4) + 1], d)
    BY <1>4, <1>5, <2>2, WideShift
  <2> QED
    BY <2>3, <2>4, <2>5, TwinSame
(* RSB from zero, MUL and MVN.                                             *)
<1>9. CASE op = 9
  <2>1. PICK q \in Top : q = 3869
    BY DEF Top
  <2>2. q \div 128 = 30 /\ (q \div 32) % 2 = 0 /\ (q \div 2) % 16 = 14
    BY <2>1
  <2>3. WideTwin(hw) = <<First(q, m), Second(z, d, z, z)>>
    BY <1>1, <1>2, <1>5, <1>9, <2>1 DEF WideDataProcessing, First, Second
  <2> DEFINE operand == ImmOperand(thumb_expand_imm(
               2048 * ((q \div 64) % 2) + 256 * (z % 8) + (16 * z + z)))
  <2>4. decode_t32(First(q, m), Second(z, d, z, z)) =
          decode_t32_dpi_common((q \div 2) % 16, q % 2, m, d, operand)
    BY <1>4, <2>2, WideImmediate
  <2> HIDE DEF operand
  <2>5. decode_t32(First(q, m), Second(z, d, z, z)) = Writeback("RSB", d)
    BY <1>4, <2>2, <2>4, Operations
  <2>6. decode_t16(hw) = Writeback("RSB", d)
    BY <1>3, <1>9 DEF DataProcessingMap
  <2> QED
    BY <2>3, <2>5, <2>6, TwinSame
<1>10. CASE op = 13
  <2>1. PICK q \in Top : q = 4016
    BY DEF Top
  <2>2. WideTwin(hw) = <<First(q, d), Second(f, d, z, m)>>
    BY <1>1, <1>2, <1>5, <1>10, <2>1 DEF WideDataProcessing, First, Second
  <2>3. decode_t32(First(q, d), Second(f, d, z, m)) = Writeback("MUL", d)
    BY <1>4, <1>5, <2>1, WideMultiply
  <2>4. decode_t16(hw) = Writeback("MUL", d)
    BY <1>3, <1>10 DEF DataProcessingMap
  <2> QED
    BY <2>2, <2>3, <2>4, TwinSame
<1>11. CASE op = 15
  <2>1. PICK q \in Top : q = 3751
    BY DEF Top
  <2>2. q \div 32 = 117 /\ (q \div 2) % 16 = 3
    BY <2>1
  <2>3. WideTwin(hw) = <<First(q, f), Second(z, d, z, m)>>
    BY <1>1, <1>2, <1>5, <1>11, <2>1 DEF WideDataProcessing, First, Second
  <2>4. decode_t16(hw) = Writeback("MVN", d)
    BY <1>3, <1>11 DEF DataProcessingMap
  <2>5. decode_t16(hw)
          = decode_t32_dpi_common((q \div 2) % 16, q % 2, f, d, RegOperand(m))
    BY <1>4, <1>5, <2>2, <2>4, Operations
  <2> QED
    BY <1>4, <1>5, <2>2, <2>3, <2>5, RegisterTwin
<1> QED
  BY <1>1, <1>6, <1>7, <1>8, <1>9, <1>10, <1>11

LEMMA SameStore ==
  ASSUME NEW hw \in Halfword,
         \/ Field(hw, 15, 9) \in {40, 41, 42} \/ Field(hw, 15, 11) \in {12, 14, 16, 18}
  PROVE  Same(hw)
<1> DEFINE group == Field(hw, 15, 9)
           top5  == Field(hw, 15, 11)
           a     == Field(hw, 8, 6)
           n     == Field(hw, 5, 3)
           d     == Field(hw, 2, 0)
           imm5  == Field(hw, 10, 6)
           r8    == Field(hw, 10, 8)
           imm8  == Field(hw, 7, 0)
<1>1. /\ a \in 0 .. 7 /\ n \in 0 .. 7 /\ d \in 0 .. 7 /\ imm5 \in 0 .. 31
      /\ r8 \in 0 .. 7 /\ imm8 \in 0 .. 255
  BY NarrowFields, FieldRange
<1>2. CASE group \in {40, 41, 42}
  <2>1. top5 = 10 /\ Field(hw, 15, 12) = 5 /\ Field(hw, 11, 9) = group - 40
    BY <1>2, NarrowFields
  <2>2. WideTwin(hw) = <<(CASE group = 40 -> 63552 [] group = 41 -> 63520 [] group = 42 -> 63488) + n,
                         4096 * d + a>>
    BY <1>2, <2>1, GroupsApart DEF WideTwin
  <2>3. decode_t16(hw) = Store(d, <<4, 2, 1>>[group - 39])
    <3>1. decode_t16(hw) = StoreRegisterOffset16(hw)
      BY <2>1, GroupsApart DEF decode_t16
    <3> QED
      BY <1>2, <2>1, <3>1 DEF StoreRegisterOffset16
  <2>4. PICK q \in Top : q = CASE group = 40 -> 3972 [] group = 41 -> 3970 [] group = 42 -> 3968
    BY <1>2 DEF Top
  <2> HIDE DEF group, n, d, a
  <2>5. n \in Digit /\ d \in Digit /\ a \in Top
    BY <1>1 DEF Digit, Top
  <2>6. WideTwin(hw) = <<First(q, n), 4096 * d + a>>
    BY <1>1, <1>2, <2>2, <2>4 DEF First
  <2>7. decode_t32(First(q, n), 4096 * d + a) = Store(d, StoreSize32(q))
    <3>1. q \in {3968, 3970, 3972, 3976, 3978, 3980}
      BY <1>2, <2>4
    <3> QED
      BY <2>5, <3>1, WideStore
  <2>8. StoreSize32(q) = <<4, 2, 1>>[group - 39]
    BY <1>2, <2>4 DEF StoreSize32
  <2> QED
    BY <2>3, <2>6, <2>7, <2>8, TwinSame
<1>3. CASE top5 \in {12, 14, 16, 18}
  <2>1. WideTwin(hw) = CASE top5 = 12 -> <<63680 + n, 4096 * d + 4 * imm5>>
                         [] top5 = 14 -> <<63616 + n, 4096 * d + imm5>>
                         [] top5 = 16 -> <<63648 + n, 4096 * d + 2 * imm5>>
                         [] top5 = 18 -> <<63693, 4096 * r8 + 4 * imm8>>
    BY <1>3, GroupsApart DEF WideTwin
  <2>2. decode_t16(hw) = CASE top5 = 12 -> Store(d, 4) [] top5 = 14 -> Store(d, 1)
                           [] top5 = 16 -> Store(d, 2) [] top5 = 18 -> Store(r8, 4)
    <3>1. Field(hw, 15, 10) # 16 /\ Field(hw, 15, 8) \notin 68 .. 70 /\ Field(hw, 15, 12) # 5
      BY <1>3, GroupFields
    <3> QED
      BY <1>3, <3>1 DEF decode_t16
  <2> HIDE DEF top5, n, d, imm5, r8, imm8
  <2>3. PICK q \in Top : q = CASE top5 = 12 -> 3980 [] top5 = 14 -> 3976
                             [] top5 = 16 -> 3978 [] top5 = 18 -> 3980
    BY <1>3 DEF Top
  <2>4. PICK r \in Digit : r = IF top5 = 18 THEN 13 ELSE n
    BY <1>1 DEF Digit
  <2>5. PICK t \in Digit : t = IF top5 = 18 THEN r8 ELSE d
    BY <1>1 DEF Digit
  <2>6. PICK x \in Top : x = CASE top5 = 12 -> 4 * imm5 [] top5 = 14 -> imm5
                             [] top5 = 16 -> 2 * imm5 [] top5 = 18 -> 4 * imm8
    <3>1. 4 * imm5 \in Top /\ imm5 \in Top /\ 2 * imm5 \in Top /\ 4 * imm8 \in Top
      BY <1>1 DEF Top
    <3> QED
      BY <1>3, <3>1
  <2>7. WideTwin(hw) = <<First(q, r), 4096 * t + x>>
    BY <1>1, <1>3, <2>1, <2>3, <2>4, <2>5, <2>6 DEF First
  <2>8. decode_t32(First(q, r), 4096 * t + x) = Store(t, StoreSize32(q))
    <3>1. q \in {3968, 3970, 3972, 3976, 3978, 3980}
      BY <1>3, <2>3
    <3> QED
      BY <3>1, WideStore
  <2>9. StoreSize32(q) = CASE top5 = 12 -> 4 [] top5 = 14 -> 1 [] top5 = 16 -> 2 [] top5 = 18 -> 4
    BY <1>3, <2>3 DEF StoreSize32
  <2>10. decode_t16(hw) = Store(t, StoreSize32(q))
    BY <1>3, <2>2, <2>5, <2>9
  <2> QED
    BY <2>7, <2>8, <2>10, TwinSame
<1> QED
  BY <1>2, <1>3

LEMMA AllSame ==
  ASSUME NEW hw \in Halfword, ~AddsSP(hw)
  PROVE  Same(hw)
<1> DEFINE top5 == Field(hw, 15, 11)
<1>1. CASE top5 \in 0 .. 2
  BY <1>1, SameShift
<1>2. CASE top5 = 3
  BY <1>2, SameAddSubtract
<1>3. CASE top5 \in 4 .. 7
  BY <1>3, SameImmediate
<1>4. CASE Field(hw, 15, 10) = 16
  BY <1>4, SameDataProcessing
<1>5. CASE Field(hw, 15, 8) \in 68 .. 70
  BY <1>5, SameHighRegister
<1>6. CASE Field(hw, 15, 9) \in {40, 41, 42} \/ top5 \in {12, 14, 16, 18}
  BY <1>6, SameStore
<1>7. CASE /\ top5 \notin 0 .. 7 /\ Field(hw, 15, 10) # 16 /\ Field(hw, 15, 8) \notin 68 .. 70
           /\ Field(hw, 15, 9) \notin {40, 41, 42} /\ top5 \notin {12, 14, 16, 18}
  <2>1. /\ top5 # 3 /\ top5 # 4 /\ top5 # 5 /\ top5 # 6 /\ top5 # 7
        /\ Field(hw, 15, 8) # 68 /\ Field(hw, 15, 8) # 69 /\ Field(hw, 15, 8) # 70
        /\ top5 \notin 0 .. 2
    BY <1>7
  <2>2. WideTwin(hw) = NoTwin
    BY <1>7, <2>1 DEF WideTwin
  <2> QED
    BY <2>2 DEF Same
<1> QED
  BY <1>1, <1>2, <1>3, <1>4, <1>5, <1>6, <1>7

(* The assembler's choice between a short and a long encoding changes      *)
(* nothing, for every 16-bit encoding that has a twin but ADD Rd, SP: both *)
(* tables of data processing agree row by row, a move is no shift in       *)
(* either, a constant of one byte is itself, and the stores name sizes     *)
(* alike.  For ADD Rd, SP, whatever Rd, it decides whether it is counted.  *)
THEOREM EncodingsAgree == Spec => []EncodingsDifferForSPOnly
<1>1. StreamTypeOK => EncodingsDifferForSPOnly
  <2> SUFFICES ASSUME StreamTypeOK, IsNarrow, WideTwin(hw1) # NoTwin
               PROVE  (Decoded = decode_insn(WideTwin(hw1)[1], WideTwin(hw1)[2], 4))
                        = ~AddsSP(hw1)
    BY DEF EncodingsDifferForSPOnly
  <2>1. Decoded = decode_t16(hw1)
    BY DEF Decoded, IsNarrow, IsWide, decode_insn
  <2>2. \A h1, h2 : decode_insn(h1, h2, 4) = decode_t32(h1, h2)
    BY DEF decode_insn
  <2>3. CASE AddsSP(hw1)
    BY <2>1, <2>2, <2>3, SPDiffers DEF StreamTypeOK
  <2>4. CASE ~AddsSP(hw1)
    <3>1. decode_t16(hw1) = decode_t32(WideTwin(hw1)[1], WideTwin(hw1)[2])
      BY <2>4, AllSame DEF Same, StreamTypeOK
    <3> QED
      BY <2>1, <2>2, <2>4, <3>1
  <2> QED
    BY <2>3, <2>4
<1> QED
  BY <1>1, StreamType, PTL
=============================================================================
