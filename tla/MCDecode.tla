------------------------------ MODULE MCDecode ------------------------------
(* Instruction streams for the model checker.  Of the 6144 first halfwords *)
(* of 32-bit encodings, those whose low four bits (a register number in    *)
(* every form decoded) name an ordinary register, SP or PC, and TST r0,    *)
(* whose second halfwords are tried exhaustively.                          *)
EXTENDS DecodeStream

MCHeads == {h \in 59392 .. 65535 : h % 16 \in {1, 13, 15}} \cup {61456, 62480}

(* Every top nibble (flag bits, Rt, imm3 and the branch forms), the        *)
(* destinations r0, r7, SP and PC, and low bytes for both multiply and     *)
(* divide selectors, a shift, a register-shift and an immediate.           *)
MCSeconds ==
  {4096 * q + 256 * d + l :
     q \in 0 .. 15, d \in {0, 7, 13, 15}, l \in {0, 7, 16, 64, 157, 240, 245}}
=============================================================================
