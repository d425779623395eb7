-------------------------------- MODULE Pow --------------------------------
(***************************************************************************)
(* src/pow.cpp: the difficulty retarget algorithms, their dispatcher and   *)
(* the proof-of-work check, as operators over a chain.                     *)
(*                                                                         *)
(* A chain c is a sequence of block summaries [height, time, bits, stake], *)
(* c[h + 1] being the block at height h (heights grow by one from genesis, *)
(* so pprev of height h is height h - 1).  A CBlockIndex* is a height and  *)
(* nullptr is None.  stake is (nVersion & BLOCKTYPEBITS_MASK) ==           *)
(* BLOCKTYPE_STAKING.                                                      *)
(***************************************************************************)
EXTENDS Integers, Sequences, CompactTarget

CONSTANTS
    powLimit, posLimit, hybridPowLimit,     \* Consensus::Params target ceilings
    OrigMainPosLimit,                       \* the uint256S("00000fff...") literal, pow.cpp:416
    nPowTargetSpacing, nPosTargetSpacing,
    nHybridPowTargetSpacing, nHybridPosTargetSpacing,
    nPosTargetSpacingMidas, nPosTargetTimespanMidas,
    nMinimumDifficultyBlocks, MidasStartHeight, DGWDifficultyStartHeight,
    POSStartHeight, POSPOWStartHeight,
    fPowNoRetargeting, fPowAllowMinDifficultyBlocks,
    Network,          \* Params().NetworkIDString(): "main", "test", ...
    DGWPastBlocks,    \* PastBlocksMin = PastBlocksMax = 24, pow.cpp:156-157
    HybridPastBlocks  \* nPastBlocks = 24, pow.cpp:32

None == -1

Blk(c, h)       == c[h + 1]
BlockTime(c, h) == Blk(c, h).time
NBits(c, h)     == Blk(c, h).bits
Target(c, h)    == Decode(NBits(c, h))
IsStaking(c, h) == Blk(c, h).stake

\* C++ integer division truncates toward zero; \div floors.
CDiv(a, b) ==
    LET q == (IF a < 0 THEN -a ELSE a) \div (IF b < 0 THEN -b ELSE b)
    IN  IF (a < 0) = (b < 0) THEN q ELSE -q

\* The ppcoin exponential step shared by four retarget paths:
\* old * ((n - 1) * spacing + 2 * actual) / ((n + 1) * spacing), reset to
\* the limit when it is zero or above it.
\* Mutant: the reset drops its "bnNew > bnTargetLimit" half.
ExpRetargetUnclamped(old, nInterval, nTargetSpacing, nActualSpacing, limit) ==
    LET bnNew == DivU(MulU(old, (nInterval - 1) * nTargetSpacing + nActualSpacing + nActualSpacing),
                      (nInterval + 1) * nTargetSpacing)
    IN  GetCompact(IF bnNew = 0 THEN limit ELSE bnNew)

\* Mutant: the step returns the target itself, not bnNew.GetCompact().
ExpRetargetNotEncoded(old, nInterval, nTargetSpacing, nActualSpacing, limit) ==
    LET bnNew == DivU(MulU(old, (nInterval - 1) * nTargetSpacing + nActualSpacing + nActualSpacing),
                      (nInterval + 1) * nTargetSpacing)
    IN  IF bnNew = 0 \/ bnNew > limit THEN limit ELSE bnNew

ExpRetarget(old, nInterval, nTargetSpacing, nActualSpacing, limit) ==
    LET bnNew == DivU(MulU(old, (nInterval - 1) * nTargetSpacing + nActualSpacing + nActualSpacing),
                      (nInterval + 1) * nTargetSpacing)
    IN  GetCompact(IF bnNew = 0 \/ bnNew > limit THEN limit ELSE bnNew)

(***************************************************************************)
(* GetHybridPrevIndex: the nearest ancestor whose block type is fPos,      *)
(* skipping the other type, and None once pprev falls below nMinHeight.    *)
(***************************************************************************)
\* Mutant: the walker returns pprev whatever its block type.
GetHybridPrevIndexAnyType(c, h, fPos, nMinHeight) ==
    IF h = None \/ h = 0 \/ h - 1 < nMinHeight THEN None ELSE h - 1

RECURSIVE GetHybridPrevIndex(_, _, _, _)
GetHybridPrevIndex(c, h, fPos, nMinHeight) ==
    IF h = None \/ h = 0 \/ h - 1 < nMinHeight THEN None
    ELSE IF IsStaking(c, h - 1) = fPos THEN h - 1
    ELSE GetHybridPrevIndex(c, h - 1, fPos, nMinHeight)

(***************************************************************************)
(* HybridPoWDarkGravityWave.  The loop of lines 65-81 walks the PoW        *)
(* blocks through the hybrid walker, keeping the running "average"         *)
(* (avg * k + target) / (k + 1); it gives up (None) when a step leaves the *)
(* hybrid era.  It yields the average and the last block it read.          *)
(***************************************************************************)
RECURSIVE HybridPowWindow(_, _, _, _)
HybridPowWindow(c, h, k, avg) ==
    LET avgK == IF k = 1 THEN Target(c, h) ELSE DivU(MulU(avg, k) + Target(c, h), k + 1)
        next == GetHybridPrevIndex(c, h, FALSE, POSPOWStartHeight)
    IN  IF k = HybridPastBlocks THEN [ok |-> TRUE, avg |-> avgK, first |-> h]
        ELSE IF next = None \/ next <= POSPOWStartHeight THEN [ok |-> FALSE]
        ELSE HybridPowWindow(c, next, k + 1, avgK)

\* Lines 53-58: ten times the last PoW target, capped at hybridPowLimit.
\* Mutant: without the cap.
HybridPowEasedUncapped(c, last) == GetCompact(MulU(Target(c, last), 10))

HybridPowEased(c, last) == GetCompact(MinU(MulU(Target(c, last), 10), hybridPowLimit))

HybridPoWDarkGravityWave(c, hIn) ==
    LET limit == hybridPowLimit
        last  == IF IsStaking(c, hIn)
                 THEN GetHybridPrevIndex(c, hIn, FALSE, POSPOWStartHeight) ELSE hIn
        prev  == GetHybridPrevIndex(c, last, FALSE, POSPOWStartHeight)
        win   == HybridPowWindow(c, last, 1, 0)
        nTargetTimespan == HybridPastBlocks * nHybridPowTargetSpacing
        span  == BlockTime(c, last) - BlockTime(c, win.first)
        nActualTimespan == IF span < nTargetTimespan \div 4 THEN nTargetTimespan \div 4
                           ELSE IF span > nTargetTimespan * 4 THEN nTargetTimespan * 4
                           ELSE span
    IN  IF last = None \/ last < POSPOWStartHeight + HybridPastBlocks THEN GetCompact(limit)
        ELSE IF fPowAllowMinDifficultyBlocks /\ prev = None THEN GetCompact(limit)
        ELSE IF fPowAllowMinDifficultyBlocks
                /\ BlockTime(c, last) > BlockTime(c, prev) + 2 * 60 * 60
             THEN GetCompact(limit)
        ELSE IF fPowAllowMinDifficultyBlocks
                /\ BlockTime(c, last) > BlockTime(c, prev) + nPowTargetSpacing * 4
             THEN HybridPowEased(c, last)
        ELSE IF ~win.ok THEN GetCompact(limit)
        ELSE GetCompact(MinU(DivU(MulU(win.avg, nActualTimespan), nTargetTimespan), limit))

(***************************************************************************)
(* HybridPoSPIVXDifficulty.  When the last PoS block is above the hybrid   *)
(* start but not above POSStartHeight the function runs off its end with   *)
(* no return statement: Undefined stands for that garbage value.           *)
(***************************************************************************)
Undefined == -2

HybridPoSPIVXDifficulty(c, hIn) ==
    LET last == IF IsStaking(c, hIn) THEN hIn
                ELSE GetHybridPrevIndex(c, hIn, TRUE, POSPOWStartHeight)
        prev == GetHybridPrevIndex(c, last, TRUE, POSPOWStartHeight)
        spacing == IF prev # None THEN BlockTime(c, last) - BlockTime(c, prev) ELSE 0
    IN  IF last = None \/ last <= POSPOWStartHeight THEN GetCompact(posLimit)
        ELSE IF fPowNoRetargeting THEN NBits(c, last)
        ELSE IF last > POSStartHeight
             THEN ExpRetarget(Target(c, last), 40, nHybridPosTargetSpacing,
                              IF spacing < 0 THEN 1 ELSE spacing, posLimit)
        ELSE Undefined

(***************************************************************************)
(* GetNextWorkRequiredPivx: the PoS exponential step on the previous block *)
(* (and its testnet copy), else Dark Gravity Wave over the last            *)
(* DGWPastBlocks blocks of either type.                                    *)
(***************************************************************************)
PivxPosRetarget(c, h, limit) ==
    LET spacing == IF h # 0 THEN BlockTime(c, h) - BlockTime(c, h - 1) ELSE 0
    IN  ExpRetarget(Target(c, h), (60 * 40) \div 60, 60,
                    IF spacing < 0 THEN 1 ELSE spacing, limit)

\* One pass of the loop of lines 220-246 per call: reading is the block
\* read, i the iteration, last the previous LastBlockTime.
RECURSIVE DGWLoop(_, _, _, _, _, _)
DGWLoop(c, reading, i, avg, last, span) ==
    IF reading = None \/ reading = 0 \/ i > DGWPastBlocks
    THEN [count |-> i - 1, avg |-> avg, span |-> span]
    ELSE LET avgI  == IF i = 1 THEN Target(c, reading)
                      ELSE DivU(MulU(avg, i) + Target(c, reading), i + 1)
             spanI == IF last > 0 THEN span + (last - BlockTime(c, reading)) ELSE span
         IN  DGWLoop(c, reading - 1, i + 1, avgI, BlockTime(c, reading), spanI)

\* Line 166: the ceiling of the block's type.
\* Mutant: the two arms of the conditional swapped.
PivxTargetLimitSwapped(fProofOfStake) == IF fProofOfStake THEN powLimit ELSE posLimit

PivxTargetLimit(fProofOfStake) == IF fProofOfStake THEN posLimit ELSE powLimit

GetNextWorkRequiredPivx(c, h, fProofOfStake) ==
    LET limit == PivxTargetLimit(fProofOfStake)
        loop  == DGWLoop(c, h, 1, 0, 0, 0)
        nTargetTimespan == loop.count * nPosTargetSpacing
        nActualTimespan == IF loop.span < nTargetTimespan \div 3 THEN nTargetTimespan \div 3
                           ELSE IF loop.span > nTargetTimespan * 3 THEN nTargetTimespan * 3
                           ELSE loop.span
    IN  IF fPowNoRetargeting THEN NBits(c, h)
        ELSE IF h = 0 \/ h < DGWDifficultyStartHeight + DGWPastBlocks THEN GetCompact(powLimit)
        ELSE IF h > POSStartHeight THEN PivxPosRetarget(c, h, limit)
        ELSE IF Network = "test" /\ h + 3 > POSStartHeight THEN PivxPosRetarget(c, h, posLimit)
        ELSE GetCompact(MinU(DivU(MulU(loop.avg, nActualTimespan), nTargetTimespan), limit))

(***************************************************************************)
(* avgRecentTimestamps: the sums of the last 5, 7, 9 and 17 block          *)
(* intervals, divided (truncating) by their count.  Past genesis every     *)
(* interval counts as nPosTargetSpacing.                                   *)
(***************************************************************************)
\* Mutant: past genesis blocktime is left as it is, adding zero intervals.
RecentIntervalNoPad(c, h, k) ==
    IF h - k >= 1 THEN BlockTime(c, h - k) - BlockTime(c, h - k - 1) ELSE 0

RecentInterval(c, h, k) ==
    IF h - k >= 1 THEN BlockTime(c, h - k) - BlockTime(c, h - k - 1) ELSE nPosTargetSpacing

RECURSIVE IntervalSum(_, _, _)
IntervalSum(c, h, n) == IF n = 0 THEN 0 ELSE RecentInterval(c, h, n - 1) + IntervalSum(c, h, n - 1)

avgRecentTimestamps(c, h) ==
    [n \in {5, 7, 9, 17} |-> CDiv(IntervalSum(c, h, n), n)]

(***************************************************************************)
(* GetNextWorkRequiredMidas, lines 316-349: the interval the chain should  *)
(* aim for, from how far the last block's time is from the schedule        *)
(* genesis time + height * spacing.  Line 339 divides by the spacing where *)
(* line 343 divides by the timespan; both are kept.                        *)
(***************************************************************************)
MidasIntervalDesired(now, BlockHeightTime) ==
    LET nFastInterval == (nPosTargetSpacingMidas * 9) \div 10
        nSlowInterval == (nPosTargetSpacingMidas * 11) \div 10
        T == nPosTargetTimespanMidas
    IN  IF now < BlockHeightTime + T /\ now > BlockHeightTime
        THEN CDiv((T - (now - BlockHeightTime)) * nPosTargetSpacingMidas
                    + (now - BlockHeightTime) * nFastInterval, nPosTargetSpacingMidas)
        ELSE IF now + T > BlockHeightTime /\ now < BlockHeightTime
        THEN CDiv((T - (BlockHeightTime - now)) * nPosTargetSpacingMidas
                    + (BlockHeightTime - now) * nSlowInterval, T)
        ELSE IF now < BlockHeightTime THEN nSlowInterval
        ELSE nFastInterval

\* Lines 361-389: emergency, then normal adjustment, clamped to [5000, 20000].
\* A normal adjustment whose divisor is zero is a division by zero (SIGFPE);
\* DivByZero stands for it.
DivByZero == 0

MidasDifficultyFactor(d, avg) ==
    LET toofast == (d * 2) \div 3
        tooslow == (d * 3) \div 2
        emergencySlowDown == avg[5] < toofast /\ avg[9] < toofast /\ avg[17] < toofast
        emergencySpeedUp  == avg[5] > tooslow /\ avg[7] > tooslow /\ avg[9] > tooslow
        normal == \/ (avg[5] > d \/ avg[7] > d) /\ avg[9] > d /\ avg[17] > d
                  \/ (avg[5] < d \/ avg[7] < d) /\ avg[9] < d /\ avg[17] < d
        factor == IF emergencySlowDown THEN (10000 * 8) \div 5
                  ELSE IF emergencySpeedUp THEN (10000 * 5) \div 8
                  ELSE IF normal THEN CDiv(10000 * (6 * d), avg[17] + 5 * d)
                  ELSE 10000
    IN  IF ~emergencySlowDown /\ ~emergencySpeedUp /\ normal /\ avg[17] + 5 * d = 0
        THEN DivByZero
        ELSE IF factor > 20000 THEN 20000 ELSE IF factor < 5000 THEN 5000 ELSE factor

\* Lines 391-406: no adjustment keeps the old target (re-encoded);
\* otherwise old / factor * 10000, capped at the limit.
\* Mutant: without the cap.
MidasApplyUncapped(bnOld, factor, limit) ==
    IF factor = 10000 THEN GetCompact(bnOld) ELSE GetCompact(MulU(DivU(bnOld, factor), 10000))

\* Mutant: the adjusted target is returned without GetCompact().
MidasApplyNotEncoded(bnOld, factor, limit) ==
    IF factor = 10000 THEN GetCompact(bnOld) ELSE MinU(MulU(DivU(bnOld, factor), 10000), limit)

\* Mutant: no early return; a neutral factor recomputes the target.
MidasApplyNoShortcut(bnOld, factor, limit) ==
    GetCompact(MinU(MulU(DivU(bnOld, factor), 10000), limit))

MidasApply(bnOld, factor, limit) ==
    IF factor = 10000 THEN GetCompact(bnOld)
    ELSE GetCompact(MinU(MulU(DivU(bnOld, factor), 10000), limit))

GetNextWorkRequiredMidas(c, h, fProofOfStake) ==
    LET limit  == IF fProofOfStake THEN posLimit ELSE powLimit
        factor == MidasDifficultyFactor(
                      MidasIntervalDesired(BlockTime(c, h), BlockTime(c, 0) + h * nPosTargetSpacingMidas),
                      avgRecentTimestamps(c, h))
    IN  IF factor = DivByZero THEN Undefined ELSE MidasApply(Target(c, h), factor, limit)

(***************************************************************************)
(* IsProofOfStakeHeight: the threshold, and below it on main the literal   *)
(* table of early stake heights.                                           *)
(***************************************************************************)
MainStakeRanges ==
    {<<455, 479>>, <<481, 489>>, <<492, 492>>, <<501, 501>>, <<691, 691>>,
     <<702, 703>>, <<721, 721>>, <<806, 811>>, <<876, 876>>, <<889, 889>>,
     <<907, 907>>, <<913, 914>>, <<916, 929>>, <<931, 931>>, <<933, 942>>,
     <<945, 947>>, <<949, 960>>, <<962, 962>>, <<969, 969>>, <<991, 991>>}

IsProofOfStakeHeight(nHeight) ==
    \/ nHeight >= POSStartHeight
    \/ Network = "main" /\ \E r \in MainStakeRanges : r[1] <= nHeight /\ nHeight <= r[2]

(***************************************************************************)
(* GetNextWorkRequiredOrig.  The two while loops step back to a block of   *)
(* the requested type by height, but stop at genesis whatever its type.    *)
(***************************************************************************)
RECURSIVE SameTypeAncestor(_, _)
SameTypeAncestor(h, fProofOfStake) ==
    IF h = 0 \/ IsProofOfStakeHeight(h) = fProofOfStake THEN h
    ELSE SameTypeAncestor(h - 1, fProofOfStake)

\* Mutant: the older ancestor is searched from pindexPrev itself, not from
\* its pprev, so the measured spacing is zero.
GetNextWorkRequiredOrigNoStep(c, h, fProofOfStake) ==
    LET limit    == IF fProofOfStake /\ Network = "main" THEN OrigMainPosLimit ELSE powLimit
        prev     == SameTypeAncestor(h, fProofOfStake)
        prevprev == IF prev = 0 THEN None ELSE SameTypeAncestor(prev, fProofOfStake)
        spacing  == BlockTime(c, prev) - BlockTime(c, prevprev)
    IN  IF fPowNoRetargeting THEN NBits(c, h)
        ELSE IF prevprev = None THEN GetCompact(limit)
        ELSE ExpRetarget(Target(c, prev), 10, 64,
                         IF spacing < 0 THEN 64
                         ELSE IF fProofOfStake /\ spacing > 64 * 10 THEN 64 * 10
                         ELSE spacing,
                         limit)

GetNextWorkRequiredOrig(c, h, fProofOfStake) ==
    LET limit    == IF fProofOfStake /\ Network = "main" THEN OrigMainPosLimit ELSE powLimit
        prev     == SameTypeAncestor(h, fProofOfStake)
        prevprev == IF prev = 0 THEN None ELSE SameTypeAncestor(prev - 1, fProofOfStake)
        spacing  == BlockTime(c, prev) - BlockTime(c, prevprev)
    IN  IF fPowNoRetargeting THEN NBits(c, h)
        ELSE IF prevprev = None THEN GetCompact(limit)
        ELSE ExpRetarget(Target(c, prev), 10, 64,
                         IF spacing < 0 THEN 64
                         ELSE IF fProofOfStake /\ spacing > 64 * 10 THEN 64 * 10
                         ELSE spacing,
                         limit)

(***************************************************************************)
(* GetNextWorkRequired: the era dispatch.  The hybrid test uses the new    *)
(* block's height, the others the previous block's.                        *)
(***************************************************************************)
GetNextWorkRequired(c, h, fHybridPow) ==
    LET nHeight == h + 1
        fProofOfStake == IsProofOfStakeHeight(nHeight)
    IN  IF h < nMinimumDifficultyBlocks THEN GetCompact(powLimit)
        ELSE IF nHeight >= POSPOWStartHeight
             THEN IF fHybridPow THEN HybridPoWDarkGravityWave(c, h)
                  ELSE HybridPoSPIVXDifficulty(c, h)
        ELSE IF h >= DGWDifficultyStartHeight THEN GetNextWorkRequiredPivx(c, h, fProofOfStake)
        ELSE IF h >= MidasStartHeight THEN GetNextWorkRequiredMidas(c, h, fProofOfStake)
        ELSE GetNextWorkRequiredOrig(c, h, fProofOfStake)

(***************************************************************************)
(* CheckProofOfWork: the target must decode positive, without the sign or  *)
(* overflow flag and not above powLimit, and the hash must not exceed it.  *)
(***************************************************************************)
CheckProofOfWork(hash, nBits) ==
    LET t == SetCompact(nBits)
    IN  /\ ~t.negative /\ t.value # 0 /\ ~t.overflow /\ t.value <= powLimit
        /\ hash <= t.value

=============================================================================
