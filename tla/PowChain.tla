------------------------------ MODULE PowChain ------------------------------
(***************************************************************************)
(* A chain growing one block at a time, each block carrying the nBits that *)
(* GetNextWorkRequired (src/pow.cpp:510-537) assigns it on top of the      *)
(* current tip.  There is one action per branch of the dispatcher; a PoW   *)
(* block is accepted only when CheckProofOfWork (pow.cpp:539-556) passes   *)
(* for one of the hashes a miner may find.                                 *)
(*                                                                         *)
(* Timestamps are untrusted input: each block adds a delta from Deltas to  *)
(* its parent's time, negative ones included.  Below the hybrid era a      *)
(* block's type follows IsProofOfStakeHeight; from POSPOWStartHeight on    *)
(* the producer picks PoW (fHybridPow) or PoS.                             *)
(***************************************************************************)
EXTENDS Pow, FiniteSets

CONSTANTS
    GenesisTime,   \* nTime of the genesis block
    Deltas,        \* block time minus parent time, a small set of integers
    Hashes,        \* proof-of-work hashes a miner may find
    GarbageBits,   \* values an undefined return value may take
    MaxHeight      \* the chain is explored up to this height

VARIABLE chain
vars == <<chain>>

Tip == Len(chain) - 1     \* pindexLast->nHeight

Genesis == [height |-> 0, time |-> GenesisTime, bits |-> GetCompact(powLimit), stake |-> FALSE]

Init == chain = <<Genesis>>

\* Block types the block at nHeight may have.
StakeChoices(nHeight) ==
    IF nHeight >= POSPOWStartHeight THEN BOOLEAN ELSE {IsProofOfStakeHeight(nHeight)}

\* Append a block of the given type and nBits whose time is the tip's plus
\* dt; header validation runs CheckProofOfWork on PoW blocks.
Accept(dt, fStake, bits) ==
    /\ fStake \/ \E hash \in Hashes : CheckProofOfWork(hash, bits)
    /\ chain' = Append(chain, [height |-> Tip + 1, time |-> BlockTime(chain, Tip) + dt,
                               bits |-> bits, stake |-> fStake])

Grow == Tip < MaxHeight

\* pindexLast->nHeight < params.nMinimumDifficultyBlocks (devnets).
MinimumDifficultyBlock ==
    /\ Grow /\ Tip < nMinimumDifficultyBlocks
    /\ \E dt \in Deltas, fStake \in StakeChoices(Tip + 1) :
          Accept(dt, fStake, GetCompact(powLimit))

\* nHeight >= POSPOWStartHeight with fHybridPow.
HybridPowBlock ==
    /\ Grow /\ Tip >= nMinimumDifficultyBlocks /\ Tip + 1 >= POSPOWStartHeight
    /\ \E dt \in Deltas : Accept(dt, FALSE, HybridPoWDarkGravityWave(chain, Tip))

\* nHeight >= POSPOWStartHeight without fHybridPow; a run off the end of
\* HybridPoSPIVXDifficulty yields whatever the return register holds.
HybridPosBlock ==
    /\ Grow /\ Tip >= nMinimumDifficultyBlocks /\ Tip + 1 >= POSPOWStartHeight
    /\ LET r == HybridPoSPIVXDifficulty(chain, Tip)
       IN  \E dt \in Deltas, bits \in IF r = Undefined THEN GarbageBits ELSE {r} :
              Accept(dt, TRUE, bits)

\* pindexLast->nHeight >= DGWDifficultyStartHeight.
DGWBlock ==
    /\ Grow /\ Tip >= nMinimumDifficultyBlocks /\ Tip + 1 < POSPOWStartHeight
    /\ Tip >= DGWDifficultyStartHeight
    /\ \E dt \in Deltas :
          Accept(dt, IsProofOfStakeHeight(Tip + 1),
                 GetNextWorkRequiredPivx(chain, Tip, IsProofOfStakeHeight(Tip + 1)))

\* pindexLast->nHeight >= MidasStartHeight; a division by zero in the
\* normal adjustment kills the process, so no block is produced.
MidasBlock ==
    /\ Grow /\ Tip >= nMinimumDifficultyBlocks /\ Tip + 1 < POSPOWStartHeight
    /\ Tip < DGWDifficultyStartHeight /\ Tip >= MidasStartHeight
    /\ LET r == GetNextWorkRequiredMidas(chain, Tip, IsProofOfStakeHeight(Tip + 1))
       IN  /\ r # Undefined
           /\ \E dt \in Deltas : Accept(dt, IsProofOfStakeHeight(Tip + 1), r)

\* The oldest era.
OrigBlock ==
    /\ Grow /\ Tip >= nMinimumDifficultyBlocks /\ Tip + 1 < POSPOWStartHeight
    /\ Tip < DGWDifficultyStartHeight /\ Tip < MidasStartHeight
    /\ \E dt \in Deltas :
          Accept(dt, IsProofOfStakeHeight(Tip + 1),
                 GetNextWorkRequiredOrig(chain, Tip, IsProofOfStakeHeight(Tip + 1)))

\* The explored prefix is complete.
Complete == ~Grow /\ UNCHANGED vars

Next ==
    \/ MinimumDifficultyBlock
    \/ HybridPowBlock
    \/ HybridPosBlock
    \/ DGWBlock
    \/ MidasBlock
    \/ OrigBlock
    \/ Complete

Spec == Init /\ [][Next]_vars

-----------------------------------------------------------------------------
\* Blocks are numbered from genesis and every nBits is a compact value in
\* the form GetCompact writes: non-negative and re-encoding to itself.
TypeOK ==
    /\ chain \in Seq([height : Nat, time : Int, bits : Nat, stake : BOOLEAN])
    /\ \A h \in 0..Tip :
          /\ Blk(chain, h).height = h
          /\ ~SetCompact(NBits(chain, h)).negative
          /\ GetCompact(Target(chain, h)) = NBits(chain, h)

(***************************************************************************)
(* Whenever a PoW block may come next, the nBits the dispatcher assigns it *)
(* passes the range check of CheckProofOfWork: not negative, not zero, no  *)
(* overflow, not above powLimit.  Producer (GetNextWorkRequired, over the  *)
(* whole history and every era's clamp) and verifier must agree, or the   *)
(* PoW track can never be extended again.                                  *)
(***************************************************************************)
PowBlocksSolvable ==
    Grow /\ FALSE \in StakeChoices(Tip + 1)
      => CheckProofOfWork(0, GetNextWorkRequired(chain, Tip, TRUE))

(***************************************************************************)
(* Refinement: from POSPOWStartHeight on, the PoW and PoS blocks of the    *)
(* chain form two tracks that retarget independently (HybridTracks).  It   *)
(* fails if GetHybridPrevIndex lets a block of the other type, or one     *)
(* below the era, into a retarget, or if the window loop miscounts.       *)
(***************************************************************************)
HybridBlocks == SelectSeq(chain, LAMBDA b : b.height >= POSPOWStartHeight)

Tracks == INSTANCE HybridTracks WITH
    powTrack <- SelectSeq(HybridBlocks, LAMBDA b : ~b.stake),
    posTrack <- SelectSeq(HybridBlocks, LAMBDA b : b.stake),
    top      <- Tip

HybridTracksRefined == Tracks!Spec


(***************************************************************************)
(* spec.md 4.4, Legacy Exponential: "Falls back to the ceiling if fewer    *)
(* than two same-type ancestors exist."  Checked on every block the Orig   *)
(* era produced (GetNextWorkRequiredOrig, pow.cpp:418-429).                *)
(***************************************************************************)
OrigEra(h) ==
    /\ h - 1 >= nMinimumDifficultyBlocks /\ h < POSPOWStartHeight
    /\ h - 1 < DGWDifficultyStartHeight /\ h - 1 < MidasStartHeight

OrigFallsBackToCeiling ==
    \A h \in 1..Tip :
        LET fPoS == IsProofOfStakeHeight(h)
        IN  /\ OrigEra(h) /\ ~fPowNoRetargeting
            /\ Cardinality({a \in 0..h - 1 : IsProofOfStakeHeight(a) = fPoS}) < 2
            => NBits(chain, h) = GetCompact(IF fPoS /\ Network = "main" THEN OrigMainPosLimit
                                                                       ELSE powLimit)
(***************************************************************************)
(* The comment at pow.cpp:441: the legacy step "retarget[s] with           *)
(* exponential moving toward target spacing".  Let s be the spacing of the *)
(* last two blocks of the new block's type (GetNextWorkRequiredOrig's own  *)
(* ancestors).  If s is at least the 64 s target spacing the new block is *)
(* no harder than the older one was, up to the ceiling; if s lies in      *)
(* 0..64 it is no easier.  At s = 64 both hold, which is spec.md section  *)
(* 8's "no drift at equilibrium".  It fails if the ancestors are misread, *)
(* if a spacing clamp is wrong, or if bnNew *= (9 * 64 + 2 * spacing) at  *)
(* line 447 carries past the top of the 256-bit target and wraps.         *)
(***************************************************************************)
OrigStepMovesTowardSpacing ==
    \A h \in 1..Tip :
        LET fPoS     == IsProofOfStakeHeight(h)
            limit    == IF fPoS /\ Network = "main" THEN OrigMainPosLimit ELSE powLimit
            prev     == SameTypeAncestor(h - 1, fPoS)
            prevprev == IF prev = 0 THEN None ELSE SameTypeAncestor(prev - 1, fPoS)
            s        == BlockTime(chain, prev) - BlockTime(chain, prevprev)
            old      == Target(chain, prev)
        IN  OrigEra(h) /\ ~fPowNoRetargeting /\ prevprev # None =>
                /\ s >= 64 => Target(chain, h) >= Decode(GetCompact(MinU(old, limit)))
                /\ 0 <= s /\ s <= 64 => Target(chain, h) <= old
(***************************************************************************)
(* spec.md 4.4, Averaged-Window: the window's actual timespan is set       *)
(* against window_size x nominal spacing, and the averaged target is       *)
(* rescaled by that ratio.  On a chain exactly on schedule (every block of *)
(* the window nPosTargetSpacing after its parent) whose window targets are *)
(* all equal, the ratio is 1 and the Dark Gravity Wave branch of           *)
(* GetNextWorkRequiredPivx (pow.cpp:220-265) keeps the target: no drift at *)
(* equilibrium, as spec.md section 8 states for the legacy step.           *)
(***************************************************************************)
DGWWindowEra(p) ==
    /\ p >= nMinimumDifficultyBlocks /\ p + 1 < POSPOWStartHeight
    /\ p >= DGWDifficultyStartHeight + DGWPastBlocks /\ ~fPowNoRetargeting
    /\ p <= POSStartHeight /\ ~(Network = "test" /\ p + 3 > POSStartHeight)

DGWOnScheduleKeepsTarget ==
    \A h \in 1..Tip :
        LET p == h - 1
            window == (p - DGWPastBlocks + 1)..p
        IN  /\ DGWWindowEra(p)
            /\ \A k \in window : NBits(chain, k) = NBits(chain, p)
            /\ \A k \in window : BlockTime(chain, k) - BlockTime(chain, k - 1) = nPosTargetSpacing
            => NBits(chain, h) = NBits(chain, p)

(***************************************************************************)
(* spec.md 4.4, Midas: the averages are "rolling average intervals over    *)
(* the last 5, 7, 9, and 17 blocks".  On a chain whose every block so far *)
(* came nPosTargetSpacingMidas after its parent, each average Midas reads  *)
(* is that spacing, also while the chain is younger than 17 blocks and    *)
(* avgRecentTimestamps pads the window with intervals before genesis      *)
(* (pow.cpp:287-290), which count nPosTargetSpacing.  It fails if the    *)
(* padding is dropped or the two spacings disagree.                       *)
(***************************************************************************)
MidasAveragesOnSchedule ==
    /\ Tip >= nMinimumDifficultyBlocks /\ Tip + 1 < POSPOWStartHeight
    /\ Tip < DGWDifficultyStartHeight /\ Tip >= MidasStartHeight
    /\ \A k \in 1..Tip : BlockTime(chain, k) - BlockTime(chain, k - 1) = nPosTargetSpacingMidas
    => \A n \in {5, 7, 9, 17} : avgRecentTimestamps(chain, Tip)[n] = nPosTargetSpacingMidas

(***************************************************************************)
(* spec.md section 7: every retarget is total, "never undefined behavior,  *)
(* never a crash".  Whatever type the next block takes, the dispatcher     *)
(* (GetNextWorkRequired) must return a value: neither the fall-through of  *)
(* HybridPoSPIVXDifficulty (pow.cpp:143) nor Midas's division by          *)
(* avgOf17 + 5 * nIntervalDesired (pow.cpp:383) may be reached.           *)
(***************************************************************************)
NextWorkDefined ==
    Grow => \A fHybridPow \in BOOLEAN : GetNextWorkRequired(chain, Tip, fHybridPow) # Undefined

(***************************************************************************)
(* Every stake block's nBits decodes to a positive target, without the    *)
(* sign or overflow flag, not above posLimit: the Midas no-adjustment      *)
(* path, the DGW window and the exponential steps each bypass or apply a  *)
(* clamp of their own, on top of whatever an earlier block carried.       *)
(***************************************************************************)
StakeTargetsWithinPosLimit ==
    \A h \in 1..Tip :
        IsStaking(chain, h) =>
            LET t == SetCompact(NBits(chain, h))
            IN  ~t.negative /\ ~t.overflow /\ 0 < t.value /\ t.value <= posLimit

=============================================================================
