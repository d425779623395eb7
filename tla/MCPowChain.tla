----------------------------- MODULE MCPowChain -----------------------------
(* Model values for PowChain.  Targets are scaled (CompactTarget): a       *)
(* "byte" is 4 bits and a target 28 bits.  Products wrap modulo 2^28, so  *)
(* each ceiling is chosen with the headroom its run needs: ceiling times  *)
(* the largest multiplier the run reaches stays below 2^28, as the code's *)
(* ~uint256(0) >> 20 times any spacing below 2^20 stays below 2^256.      *)
(* The overflow run keeps the code's own 20 bits of headroom instead.    *)
EXTENDS PowChain

\* Block-time deltas: a backwards timestamp, on schedule, slow.
MCDeltasEras   == {-20, 64, 700}
\* Hybrid era: backwards, on schedule, later than 4 spacings, later than 2 hours.
MCDeltasHybrid == {-20, 64, 300, 7300}
\* One timestamp far before its parent, then on-schedule blocks.
MCDeltasMidasBackward == {-6980, 64}
\* On schedule, or a pause just long enough that 9 * 64 + 2 * spacing
\* times the ceiling passes 2^28 by less than one divisor (pow.cpp:447).
MCDeltasOrigPause   == {64, 526100}
\* The code's headroom: 20 bits below the top, as ~uint256(0) >> 20.
MCLimitHeadroom == 2^8 - 1
MCHashes       == {0}
MCGarbage      == {0, GetCompact(1)}
\* A Midas-only chain: the largest multiplier is 10000 after a division by
\* at least 5000 (pow.cpp:400-401), so the ceiling may sit 9 bits below
\* the top; Midas divides before it multiplies and needs the precision.
MCLimitMidas   == 2^19 - 1
\* Largest multiplier: 39 * 60 + 2 * 700 (PoS step, pow.cpp:184).
MCLimitEras    == 2^16 - 1
\* Largest multiplier: 39 * 64 + 2 * 4 * 7300 (hybrid PoS step over four
\* blocks, pow.cpp:136).
MCLimitHybrid  == 2^12 - 1
\* A PoS ceiling four bits below the PoW one, as >> 24 against >> 20.
MCPosLimitTest == 2^12 - 1
=============================================================================
