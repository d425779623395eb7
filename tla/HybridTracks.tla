---------------------------- MODULE HybridTracks ----------------------------
(***************************************************************************)
(* What the hybrid era promises (spec.md 4.2 and 4.4): PoW and PoS blocks  *)
(* interleave in one chain, yet each type retargets as if it were alone,   *)
(* from its own sub-chain.  powTrack and posTrack hold the blocks of each  *)
(* type at heights >= POSPOWStartHeight, oldest first; top is the height   *)
(* of the newest block of either type.  Nothing in this module walks the   *)
(* physical chain: a retarget reads one track only.                        *)
(***************************************************************************)
EXTENDS Integers, Sequences, CompactTarget

CONSTANTS
    hybridPowLimit, posLimit, nPowTargetSpacing,
    nHybridPowTargetSpacing, nHybridPosTargetSpacing,
    POSStartHeight, POSPOWStartHeight,
    fPowNoRetargeting, fPowAllowMinDifficultyBlocks, HybridPastBlocks

VARIABLES powTrack, posTrack, top
vars == <<powTrack, posTrack, top>>

S == POSPOWStartHeight
N == HybridPastBlocks

LastOf(s) == s[Len(s)]

\* The running "average" of Dark Gravity Wave over targets t[1] (newest)
\* .. t[k]: a[1] = t[1], a[i] = (a[i-1] * i + t[i]) / (i + 1).
RECURSIVE RunningAvg(_, _)
RunningAvg(t, k) == IF k = 1 THEN t[1] ELSE DivU(RunningAvg(t, k - 1) * k + t[k], k + 1)

(***************************************************************************)
(* The PoW target from the PoW track: the limit until the newest PoW block *)
(* is N heights into the era; the minimum-difficulty easing against the   *)
(* PoW block before it; the limit unless N PoW blocks lie strictly above  *)
(* the era's first height; else the average of the newest N PoW targets   *)
(* scaled by their time span against N spacings, clamped to [1/4, 4].     *)
(***************************************************************************)
PowTarget(track) ==
    LET n     == Len(track)
        last  == LastOf(track)
        prev  == track[n - 1]
        above == SelectSeq(track, LAMBDA b : b.height > S)
        win   == [i \in 1..N |-> above[Len(above) + 1 - i]]   \* newest first
        span  == win[1].time - win[N].time
        goal  == N * nHybridPowTargetSpacing
        ratio == IF span < goal \div 4 THEN goal \div 4
                 ELSE IF span > goal * 4 THEN goal * 4 ELSE span
    IN  IF n = 0 \/ last.height < S + N THEN GetCompact(hybridPowLimit)
        ELSE IF fPowAllowMinDifficultyBlocks /\ n = 1 THEN GetCompact(hybridPowLimit)
        ELSE IF fPowAllowMinDifficultyBlocks /\ last.time > prev.time + 2 * 60 * 60
             THEN GetCompact(hybridPowLimit)
        ELSE IF fPowAllowMinDifficultyBlocks /\ last.time > prev.time + nPowTargetSpacing * 4
             THEN GetCompact(MinU(Decode(last.bits) * 10, hybridPowLimit))
        ELSE IF Len(above) < N THEN GetCompact(hybridPowLimit)
        ELSE GetCompact(MinU(DivU(RunningAvg([i \in 1..N |-> Decode(win[i].bits)], N) * ratio,
                                  goal), hybridPowLimit))

(***************************************************************************)
(* The PoS target from the PoS track: the limit until a PoS block lies     *)
(* above the era's first height; else the exponential step (interval 40)  *)
(* on the spacing between the two newest PoS blocks (0 when there is one, *)
(* 1 when negative).  Below POSStartHeight nothing is promised.  bnNew is *)
(* the exact product of spec.md 4.4's formula, with no reduction modulo   *)
(* the target's width.                                                     *)
(***************************************************************************)
PosTarget(track) ==
    LET n    == Len(track)
        last == LastOf(track)
        gap  == IF n >= 2 THEN last.time - track[n - 1].time ELSE 0
        act  == IF gap < 0 THEN 1 ELSE gap
        bnNew == DivU(Decode(last.bits) * (39 * nHybridPosTargetSpacing + act + act),
                      41 * nHybridPosTargetSpacing)
    IN  IF n = 0 \/ last.height <= S THEN [defined |-> TRUE, bits |-> GetCompact(posLimit)]
        ELSE IF fPowNoRetargeting THEN [defined |-> TRUE, bits |-> last.bits]
        ELSE IF last.height > POSStartHeight
             THEN [defined |-> TRUE,
                   bits |-> GetCompact(IF bnNew = 0 \/ bnNew > posLimit THEN posLimit ELSE bnNew)]
        ELSE [defined |-> FALSE]

Init == powTrack = <<>> /\ posTrack = <<>> /\ top = 0

\* A block below the hybrid era: neither track moves.
OlderBlock == top + 1 < S /\ top' = top + 1 /\ UNCHANGED <<powTrack, posTrack>>

\* One block appended to a track, at the next height.
Extends(track) ==
    /\ Len(track') = Len(track) + 1
    /\ SubSeq(track', 1, Len(track)) = track
    /\ LastOf(track').height = top + 1
    /\ top' = top + 1

\* Its target is read from that track alone.
PowBlock ==
    /\ top + 1 >= S /\ Extends(powTrack) /\ UNCHANGED posTrack
    /\ LastOf(powTrack').bits = PowTarget(powTrack)

PosBlock ==
    /\ top + 1 >= S /\ Extends(posTrack) /\ UNCHANGED powTrack
    /\ LET t == PosTarget(posTrack) IN t.defined => LastOf(posTrack').bits = t.bits

Next == OlderBlock \/ PowBlock \/ PosBlock

Spec == Init /\ [][Next]_vars
=============================================================================
