----------------------------- MODULE CommonBits -----------------------------
(***************************************************************************)
(* The two bit-twiddling helpers of Common.cpp: NextPowerOfTwo (312-328)   *)
(* and CountTrailingZeroes (458-479), over uint32_t.                       *)
(*                                                                         *)
(* As in VisitedBits, a 32-bit word is the set of its bit positions that   *)
(* are 1, so that arithmetic modulo 2^32 stays within TLC's integers:      *)
(* subtracting 1 from 0 gives every bit, adding 1 to every bit gives 0.    *)
(* A hexadecimal mask is the set of the bits it has set.                   *)
(***************************************************************************)
EXTENDS Naturals, FiniteSets

Bits == 0 .. 31
Zero == {}

(* The lowest and the highest 1 bit of a non-zero word.  (Written here     *)
(* rather than taken from FiniteSetsExt: TLC evaluates the checks below    *)
(* once only when no operator with a Java override is involved.)           *)
LowBit(w) == CHOOSE b \in w : \A c \in w : b <= c
HighBit(w) == CHOOSE b \in w : \A c \in w : b >= c

(* w - 1 and w + 1 modulo 2^32: the borrow and the carry run up to the     *)
(* lowest 1 bit and the lowest 0 bit.                                      *)
Decrement(w) == IF w = Zero THEN Bits
                ELSE (w \ {LowBit(w)}) \cup (0 .. LowBit(w) - 1)
Increment(w) == IF w = Bits THEN Zero
                ELSE (w \ (0 .. LowBit(Bits \ w) - 1)) \cup {LowBit(Bits \ w)}

(* w >> k, a logical shift of an unsigned word.                            *)
ShiftRight(w, k) == {b - k : b \in {c \in w : c >= k}}

(* a >= b for unsigned words: equal, or a has the highest differing bit.   *)
AtLeast(a, b) == a = b \/ HighBit((a \ b) \cup (b \ a)) \in a

(* Mutation of NextPowerOfTwo: the smear by 16 is left out.                *)
MutNextPowerOfTwoNoSmear16(val) ==
  LET m0 == Decrement(val)
      m2 == m0 \cup ShiftRight(m0, 8)
      m3 == m2 \cup ShiftRight(m2, 4)
      m4 == m3 \cup ShiftRight(m3, 2)
      m5 == m4 \cup ShiftRight(m4, 1)
  IN  [pow2 |-> Increment(m5), mask |-> m5]

(* NextPowerOfTwo: mask = val - 1, its highest 1 bit smeared down by       *)
(* shifts of 16, 8, 4, 2 and 1, and pow2 = mask + 1; the mask is kept for  *)
(* the CHECKs.                                                             *)
NextPowerOfTwo(val) ==
  LET m0 == Decrement(val)
      m1 == m0 \cup ShiftRight(m0, 16)
      m2 == m1 \cup ShiftRight(m1, 8)
      m3 == m2 \cup ShiftRight(m2, 4)
      m4 == m3 \cup ShiftRight(m3, 2)
      m5 == m4 \cup ShiftRight(m4, 1)
  IN  [pow2 |-> Increment(m5), mask |-> m5]

(* The three CHECKs before the return: pow2 >= val, (pow2 & mask) == 0 and *)
(* (pow2 & ~mask) == pow2.                                                 *)
PowerChecksPass(val) ==
  LET r == NextPowerOfTwo(val)
  IN  /\ AtLeast(r.pow2, val)
      /\ r.pow2 \cap r.mask = Zero
      /\ r.pow2 \cap (Bits \ r.mask) = r.pow2

(* Mutation of CountTrailingZeroes: v is not reduced to its lowest 1 bit.  *)
MutCountTrailingZeroesNoIsolate(v) ==
  LET bit(m) == IF v \cap m # Zero THEN 1 ELSE 0
  IN  32 - (IF v # Zero THEN 1 ELSE 0)
         - 16 * bit(0 .. 15)
         - 8 * bit({b \in Bits : (b \div 8) % 2 = 0})
         - 4 * bit({b \in Bits : (b \div 4) % 2 = 0})
         - 2 * bit({b \in Bits : (b \div 2) % 2 = 0})
         - bit({b \in Bits : b % 2 = 0})

(* CountTrailingZeroes: v &= -int32_t(v) keeps the lowest 1 bit; then      *)
(* bit_index starts at 32, is 31 for a non-zero v, and loses 16, 8, 4, 2   *)
(* and 1 when that bit is in 0x0000ffff, 0x00ff00ff, 0x0f0f0f0f,           *)
(* 0x33333333 and 0x55555555.                                              *)
CountTrailingZeroes(v0) ==
  LET v == v0 \cap Increment(Bits \ v0)
      bit(m) == IF v \cap m # Zero THEN 1 ELSE 0
  IN  32 - (IF v # Zero THEN 1 ELSE 0)
         - 16 * bit(0 .. 15)
         - 8 * bit({b \in Bits : (b \div 8) % 2 = 0})
         - 4 * bit({b \in Bits : (b \div 4) % 2 = 0})
         - 2 * bit({b \in Bits : (b \div 2) % 2 = 0})
         - bit({b \in Bits : b % 2 = 0})

-----------------------------------------------------------------------------
(* Every word with at most three 1 bits: every power of two, every word    *)
(* one above or below one, and 0.                                          *)
SparseWords == {{a, b, c} : a, b, c \in Bits} \cup {Zero}

(* Reference: the least power of two at or above val, for 1 <= val <=      *)
(* 2^31: the highest bit of val, or the bit above it if val has others.    *)
LeastPowerAtLeast(val) ==
  IF val = {HighBit(val)} THEN {HighBit(val)} ELSE {HighBit(val) + 1}

(* Reference: the number of trailing zero bits, 32 for 0.                  *)
TrailingZeroes(v) == IF v = Zero THEN 32 ELSE LowBit(v)

(* NextPowerOfTwo returns the least power of two at or above val for every *)
(* val from 1 to 2^31, with its CHECKs passing; for 0 it returns 0, which  *)
(* is no power of two, with every CHECK passing; above 2^31 pow2 wraps to  *)
(* 0 and the CHECK pow2 >= val fails, so a build without CHECKs returns 0. *)
NextPowerOfTwoSound ==
  \A val \in SparseWords :
    LET r == NextPowerOfTwo(val)
    IN  IF val = Zero THEN r.pow2 = Zero /\ PowerChecksPass(val)
        ELSE IF 31 \in val /\ val # {31}
               THEN r.pow2 = Zero /\ ~PowerChecksPass(val)
        ELSE r.pow2 = LeastPowerAtLeast(val) /\ PowerChecksPass(val)

(* CountTrailingZeroes counts the zero bits below the lowest 1 bit of      *)
(* every word, and gives 32 for 0.                                         *)
CountTrailingZeroesSound ==
  \A v \in SparseWords : CountTrailingZeroes(v) = TrailingZeroes(v)

=============================================================================
