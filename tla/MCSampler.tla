------------------------------ MODULE MCSampler ------------------------------
(* Small Thumb programs on three registers of four 1-bit bytes, so that a  *)
(* byte, a halfword and a word store truncate to 1, 2 and 4 bits.  The     *)
(* emulator lists no handle for the third one.                             *)
EXTENDS Sampler, TLC

Narrow(hw)     == <<hw, 0, 2>>
Wide(hw1, hw2) == <<hw1, hw2, 4>>

ADDS_r0_r0_r1 == Narrow(6208)
SUBS_r1_r0_r1 == Narrow(6721)
MUL_r0_r1_r0  == Wide(64257, 61440)
UDIV_r1_r1_r0 == Wide(64433, 61936)
LDR_r0_r1     == Narrow(26632)
STRB_r0_r1    == Narrow(28680)
STR_r1_r0     == Narrow(24577)
CMP_r0_r1     == Narrow(17032)
CMP_r0_1      == Narrow(10241)
TEQ_W_r0_r1   == Wide(60048, 3841)
IT            == Narrow(48904)
ADDS_r2_r0_r1 == Narrow(6210)
STR_r2_r0     == Narrow(24578)
CMP_r0_r2     == Narrow(17040)

Writes(c, d)        == [kind |-> "write", cls |-> c, dest |-> d]
Compares(c, rm)     == [kind |-> "compare", cls |-> c, rn |-> 0, rm |-> rm, imm |-> {0}, shift |-> 0]
Stores(r, n)        == [kind |-> "store", rt |-> r, size |-> n]

AllEffects ==
  ADDS_r0_r0_r1 :> Writes("ADD", 0) @@
  SUBS_r1_r0_r1 :> Writes("SUB", 1) @@
  MUL_r0_r1_r0  :> Writes("MUL", 0) @@
  UDIV_r1_r1_r0 :> Writes("DIV", 1) @@
  LDR_r0_r1     :> Writes("none", 0) @@
  STRB_r0_r1    :> Stores(0, 1) @@
  STR_r1_r0     :> Stores(1, 4) @@
  CMP_r0_r1     :> Compares("CMP", 1) @@
  CMP_r0_1      :> Compares("CMP", -1) @@
  TEQ_W_r0_r1   :> Compares("TEQ", 1) @@
  IT            :> [kind |-> "none"] @@
  ADDS_r2_r0_r1 :> Writes("ADD", 2) @@
  STR_r2_r0     :> Stores(2, 4) @@
  CMP_r0_r2     :> Compares("CMP", 2)

MCReg     == {0, 1, 2}
MCBound   == {0, 1}
MCResults == {0, 8, 15}    \* zero, the most negative word, minus one

(* A result that is overwritten at once, a measured result before a store, *)
(* a compare after the result it reads, blocks that end in a result, and   *)
(* a result, a store and a compare of the register that cannot be read.    *)
ExactBlocks ==
  { <<ADDS_r0_r0_r1, LDR_r0_r1, STRB_r0_r1>>,
    <<SUBS_r1_r0_r1, MUL_r0_r1_r0, CMP_r0_r1>>,
    <<ADDS_r2_r0_r1, STR_r2_r0, STR_r1_r0, TEQ_W_r0_r1, UDIV_r1_r1_r0>>,
    <<CMP_r0_1, CMP_r0_r2, IT, LDR_r0_r1, ADDS_r0_r0_r1>> }

InsnsOf(blocks) == UNION {{b[i] : i \in DOMAIN b} : b \in blocks}
ExactInsns == InsnsOf(ExactBlocks)
MCEffect   == [i \in Insn |-> AllEffects[i]]

(* LDR is conditional and may fault, UDIV may trap on a zero divisor.      *)
MCConditional == {LDR_r0_r1}
MCTrapping    == {LDR_r0_r1, UDIV_r1_r1_r0}

ASSUME ExactProgramAssumption == ExactInsns = Insn => ExactProgram

-----------------------------------------------------------------------------
(* A program outside ExactProgram.                                         *)
NoTraps         == {}
ItBlocks     == {<<CMP_r0_1, IT, ADDS_r0_r0_r1, STRB_r0_r1>>}
ItInsns      == InsnsOf(ItBlocks)
ItConditional == {ADDS_r0_r0_r1}
=============================================================================
