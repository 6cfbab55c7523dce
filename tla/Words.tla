-------------------------------- MODULE Words --------------------------------
(***************************************************************************)
(* The checksum of the custom benchmarks: chk = chk * 1000003u + word, in  *)
(* 32 bits.  A word is two halves of 16 bits, so that no product of the    *)
(* model exceeds 31 bits.                                                  *)
(***************************************************************************)
EXTENDS Integers

(* The uint32_t with the value of an int32_t or a smaller number n.        *)
Word(n) == [hi |-> (n \div 65536) % 65536, lo |-> n % 65536]

(* 1000003 = 15 * 65536 + 16963                                            *)
Mix(chk, word) ==
  LET low == chk.lo * 16963 + word.lo
  IN [lo |-> low % 65536,
      hi |-> (chk.hi * 16963 + chk.lo * 15 + word.hi + low \div 65536) % 65536]
=============================================================================
