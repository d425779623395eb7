---------------------------- MODULE CompactCheck ----------------------------
(***************************************************************************)
(* The compact codec checked over every input of a small width: x is read  *)
(* both as a magnitude handed to GetCompact and as an nBits handed to      *)
(* SetCompact.  Every value pow.cpp returns goes through GetCompact, and   *)
(* every target it reads comes back through SetCompact, so the clamps of   *)
(* the retarget algorithms only hold if the codec never rounds up and      *)
(* re-encodes its own output unchanged.                                    *)
(***************************************************************************)
EXTENDS CompactTarget

CONSTANT MaxInput   \* inputs are 0..MaxInput

VARIABLE x

Init == x \in 0..MaxInput
Next == UNCHANGED x
Spec == Init /\ [][Next]_x

\* The form GetCompact writes, stated field by field: a mantissa below the
\* sign bit whose top byte is not zero (or is zero only because the next
\* byte has its top bit set: 0x02008000), no low padding bytes below a size
\* of 3, zero only as 0, and significant bytes that fit in TargetBits
\* (the size field itself may exceed NBytes by one: 2^255 is 0x21008000).
Canonical(t) ==
    LET size == t \div Word
        word == t % Word
    IN  /\ ByteLen(word) + size - 3 <= NBytes
        /\ word < SignBit
        /\ (word = 0) <=> (size = 0)
        /\ word # 0 => word >= 2^(2 * ByteBits - 1)
        /\ size < 3 => word % 2^(ByteBits * (3 - size)) = 0

(***************************************************************************)
(* spec.md section 8, round trip: an nBits in canonical form decodes       *)
(* without the sign or overflow flag and encodes back to itself, so a     *)
(* retarget that returns pindexLast->nBits (fPowNoRetargeting, the Midas  *)
(* no-adjustment path) agrees with one that re-encodes the target.        *)
(***************************************************************************)
CompactRoundTrip ==
    Canonical(x) =>
        LET t == SetCompact(x)
        IN  ~t.negative /\ ~t.overflow /\ GetCompact(t.value) = x

(***************************************************************************)
(* GetCompact of a target (x below 2^TargetBits) is canonical and rounds   *)
(* toward zero, losing less than one part in 2^(2 * ByteBits - 1): a      *)
(* target clamped to a limit before GetCompact stays within the limit     *)
(* after it,                                                               *)
(* which is what every "if (bnNew > bnTargetLimit)" in pow.cpp relies on.  *)
(***************************************************************************)
EncodeTruncatesDown ==
    x < Modulus =>
        LET back == Decode(GetCompact(x))
        IN  /\ Canonical(GetCompact(x))
            /\ back <= x
            /\ (x - back) * 2^(2 * ByteBits - 1) < x \/ x = 0

(***************************************************************************)
(* Encoding preserves order: a larger target never encodes to an easier    *)
(* decoded target than a smaller one.  Comparisons of decoded nBits (the   *)
(* range check of CheckProofOfWork, the clamps) then mean the same before  *)
(* and after a round through the codec.                                    *)
(***************************************************************************)
EncodeMonotone ==
    0 < x /\ x < Modulus => Decode(GetCompact(x - 1)) <= Decode(GetCompact(x))
=============================================================================
