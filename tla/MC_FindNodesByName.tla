------------------------- MODULE MC_FindNodesByName -------------------------
EXTENDS FindNodesByName, CommonBits, TLC

(* Two letters, one of them in both cases.                                 *)
MCChars == {"a", "A", "b"}
MCLower(c) == IF c = "A" THEN "a" ELSE c

(* Node 1 declares the output file "ab", which is also a possible name.    *)
MCNodeOutputs == (0 :> {<<"b", "b">>}) @@ (1 :> {<<"a", "b">>, <<"b">>})

(* Common.cpp's uint32_t helpers, checked beside the other pure algorithm  *)
(* of the driver while target names are scanned.  NextPowerOfTwo gives the *)
(* least power of two at or above every value from 1 to 2^31; for 0 it    *)
(* returns 0, which is no power of two, with its CHECKs passing; above     *)
(* 2^31 the mask + 1 wraps to 0 and the CHECK pow2 >= val fails.           *)
NextPowerOfTwoBounded == pc = "scan" => NextPowerOfTwoSound

(* CountTrailingZeroes, after keeping only the lowest 1 bit through        *)
(* v & -v, counts the zero bits below it for every word, and 32 for 0.     *)
CountTrailingZeroesExact == pc = "scan" => CountTrailingZeroesSound
=============================================================================
