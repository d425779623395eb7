--------------------------- MODULE CompactTarget ---------------------------
(***************************************************************************)
(* The arith_uint256 operations pow.cpp relies on: the compact ("nBits")   *)
(* codec SetCompact/GetCompact and the comparison and division of targets. *)
(* arith_uint256.cpp is not part of src/, so this module is written from   *)
(* spec.md section 4.1 and the codec's documented byte semantics.          *)
(*                                                                         *)
(* Scaling.  TLC integers are 32 bits wide, so a 256-bit target cannot be *)
(* represented.  The codec is parameterised by the width of a "byte"      *)
(* (ByteBits, 8 in the code) and of the whole number (TargetBits, 256 in   *)
(* the code).  A compact value keeps its layout: a size field counted in  *)
(* bytes above a 3-byte mantissa whose top bit is the sign bit.  With     *)
(* ByteBits = 4 the mantissa has 11 significant bits instead of 23, so    *)
(* the truncation GetCompact performs is coarser but of the same kind.    *)
(***************************************************************************)
EXTENDS Integers

CONSTANTS
    ByteBits,    \* bits per byte of the compact encoding (8 in the code)
    TargetBits   \* width of an arith_uint256 (256 in the code)

ASSUME ByteBits \in Nat \ {0} /\ TargetBits \in Nat /\ TargetBits % ByteBits = 0

NBytes   == TargetBits \div ByteBits   \* 32 in the code
Word     == 2^(3 * ByteBits)            \* the 24-bit mantissa field: nCompact >> 24 is the size
SignBit  == 2^(3 * ByteBits - 1)        \* 0x00800000
Modulus  == 2^TargetBits

\* Number of significant bytes of x: (bits() + 7) / 8.
RECURSIVE ByteLen(_)
ByteLen(x) == IF x = 0 THEN 0 ELSE 1 + ByteLen(x \div 2^ByteBits)

\* x << k on a TargetBits-wide number: the bits shifted past the top are lost.
ShiftLeft(x, k) == IF k >= TargetBits THEN 0 ELSE (x % 2^(TargetBits - k)) * 2^k

(***************************************************************************)
(* SetCompact(nCompact, &fNegative, &fOverflow).  The mantissa excludes   *)
(* the sign bit; a size of at most 3 shifts it right, a larger size left.  *)
(* Overflow: the significant bytes of the mantissa, placed at the size,   *)
(* reach past the top byte (the code's nSize > 34, or > 33 with a 2-byte  *)
(* word, or > 32 with a 3-byte word).                                     *)
(***************************************************************************)
\* Mutant: a small size shifts the mantissa one byte too few.
SetCompactShiftShort(nCompact) ==
    LET nSize == nCompact \div Word
        nWord == nCompact % SignBit
    IN  [value    |-> IF nSize <= 3
                      THEN nWord \div 2^(ByteBits * (2 - nSize))
                      ELSE ShiftLeft(nWord, ByteBits * (nSize - 3)),
         negative |-> nWord # 0 /\ nCompact % Word >= SignBit,
         overflow |-> nWord # 0 /\ ByteLen(nWord) + nSize - 3 > NBytes]

SetCompact(nCompact) ==
    LET nSize == nCompact \div Word
        nWord == nCompact % SignBit
    IN  [value    |-> IF nSize <= 3
                      THEN nWord \div 2^(ByteBits * (3 - nSize))
                      ELSE ShiftLeft(nWord, ByteBits * (nSize - 3)),
         negative |-> nWord # 0 /\ nCompact % Word >= SignBit,
         overflow |-> nWord # 0 /\ ByteLen(nWord) + nSize - 3 > NBytes]

\* arith_uint256().SetCompact(nBits), the magnitude alone.
Decode(nCompact) == SetCompact(nCompact).value

(***************************************************************************)
(* GetCompact() of a non-negative number: keep the top three bytes; when  *)
(* the top one would read as the sign bit, drop a byte and grow the size. *)
(***************************************************************************)
\* Mutant: the mantissa is not shifted off the sign bit.
GetCompactNoSignShift(v) ==
    LET size0 == ByteLen(v)
    IN  size0 * Word + (IF size0 <= 3 THEN v * 2^(ByteBits * (3 - size0))
                                       ELSE v \div 2^(ByteBits * (size0 - 3)))

GetCompact(v) ==
    LET size0 == ByteLen(v)
        word0 == IF size0 <= 3 THEN v * 2^(ByteBits * (3 - size0))
                               ELSE v \div 2^(ByteBits * (size0 - 3))
        signed == word0 >= SignBit
    IN  (IF signed THEN size0 + 1 ELSE size0) * Word
          + (IF signed THEN word0 \div 2^ByteBits ELSE word0)

\* arith_uint256 / and *: unsigned, the divisor positive where pow.cpp divides.
\* A product keeps its low TargetBits bits, as base_uint::operator*= keeps
\* the low 256: what is carried past the top is lost without a flag.
MulU(a, b) == (a * b) % Modulus
DivU(a, d) == a \div d
MinU(a, b) == IF a <= b THEN a ELSE b
=============================================================================
