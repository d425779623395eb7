# TLA+ models of Ion's difficulty retargeting (`src/src/pow.cpp`)

This directory holds TLA+ models of the code that decides each block's
`nBits`. Ion is a hybrid chain: it started with PoW, moved to PoS, and from
`POSPOWStartHeight` on it interleaves PoW and PoS blocks. The code has five
retarget algorithms, a dispatcher that picks one by height, and the check a
PoW header must pass.

## Inventory

| Component | Code | State it reads | Module |
|---|---|---|---|
| Compact codec `SetCompact` / `GetCompact` | arith_uint256 (not under src/) | a number | `CompactTarget` (from the spec) |
| Hybrid ancestor walker | `GetHybridPrevIndex`, 18-27 | chain, block types | `Pow` |
| Hybrid PoW retarget | `HybridPoWDarkGravityWave`, 29-102 | last N PoW blocks | `Pow` |
| Hybrid PoS retarget | `HybridPoSPIVXDifficulty`, 104-144 | last two PoS blocks | `Pow` |
| PIVX / Dark Gravity Wave | `GetNextWorkRequiredPivx`, 146-266 | last 24 blocks | `Pow` |
| Midas | `avgRecentTimestamps`, `GetNextWorkRequiredMidas`, 268-408 | last 17 intervals, genesis time | `Pow` |
| Legacy exponential ("Orig") | `GetNextWorkRequiredOrig`, 410-454 | two same-type ancestors | `Pow` |
| Block-type classifier | `IsProofOfStakeHeight`, 456-508 | height, network | `Pow` |
| Era dispatcher | `GetNextWorkRequired`, 510-537 | height, `fHybridPow` | `Pow`, `PowChain` |
| PoW check | `CheckProofOfWork`, 539-556 | nBits, hash | `Pow` |
| GUI constants | `src/src/qt/guiconstants.h` | none | not modelled (no behaviour) |

**How the parts interact.**
- Every algorithm is a pure function of the chain below the new block.
- The dispatcher picks one by era.
  - The hybrid test uses the new height.
  - The other tests use the previous height.
- The result becomes the new block's `nBits`.
- For a PoW block, validation then calls `CheckProofOfWork` on that same
  `nBits`. Producer and verifier must therefore agree on the limits, or the PoW
  side of the chain stops.
- Each block's target is the input of the next retarget. That makes the chain
  a state machine, which is how `PowChain` models it.

**What makes the code hard.**
- Timestamps are untrusted: block times may go backwards.
- PoW and PoS blocks interleave in any order in the hybrid era.
- Each algorithm has its own clamps and early returns.
- One function runs off its end without a return (undefined behaviour).
- One path can divide by zero.
- 256-bit products can wrap.
- Off-by-one choices sit at each window boundary.

## Modules

- **`CompactTarget`**: the compact codec, a byte-length helper, and the
  target arithmetic: multiplication modulo the width (`MulU`), unsigned
  division and min.
  - It is written from the spec, since arith_uint256 is not under src/.
  - **Scaling.** TLC integers are 32 bits wide, so a "byte" is `ByteBits` = 4
    bits and a target `TargetBits` = 28 bits. The layout is unchanged: a size
    field over a 3-byte mantissa with a sign bit. Rounding is coarser but of
    the same kind.
  - A product keeps its low `TargetBits` bits, as `base_uint::operator*=`
    keeps the low 256. Every target product in `Pow` goes through `MulU`.
  - **Headroom.** The code's ceilings sit 20 bits below 2^256, more than any
    multiplier a chain produces short of a pause of about six days. The
    scaled runs cannot have both that headroom and the precision Midas needs
    (it divides by up to 20000 before it multiplies by 10000). Each run's
    ceiling is therefore set so that ceiling times its largest multiplier
    stays below 2^28, and no run wraps where the code would not. The
    comments in `MCPowChain` give each bound. The `orig_overflow` run keeps
    the code's own 20 bits (ceiling 2^8 - 1).
- **`Pow`**: one operator per function of pow.cpp, with each loop a RECURSIVE
  operator.
  - A block pointer is a height. `nullptr` is `None`.
  - C++ truncating division is `CDiv`.
  - The missing return in `HybridPoSPIVXDifficulty` is `Undefined`.
  - A zero divisor in Midas is `DivByZero`.
  - The literal windows of 24 are the constants `HybridPastBlocks` and
    `DGWPastBlocks`.
- **`PowChain`**: the state is `chain`, a sequence of
  `[height, time, bits, stake]` records.
  - There is one action per branch of `GetNextWorkRequired`:
    `MinimumDifficultyBlock`, `HybridPowBlock`, `HybridPosBlock`, `DGWBlock`,
    `MidasBlock` and `OrigBlock`.
  - Each action appends a block with a time delta from `Deltas` and the
    `nBits` its branch computes.
  - A PoW block is appended only if `CheckProofOfWork` passes for some hash in
    `Hashes`.
  - Undefined behaviour:
    - An `Undefined` result lets the bits be any value in `GarbageBits`.
    - A division by zero produces no block, since the process dies.
  - `Complete` stutters once the chain reaches `MaxHeight`, which bounds the
    exploration.
- **`HybridTracks`**: the abstract specification of the hybrid era, which
  spec.md 4.2 and 4.4 describe.
  - The PoW and PoS blocks form two separate tracks, and each retargets from
    its own track alone.
  - `PowChain` maps onto it with `INSTANCE HybridTracks WITH powTrack <- ...,
    posTrack <- ...` (each track is the chain's hybrid-era blocks filtered with
    `SelectSeq`). `HybridTracksRefined` is checked as a PROPERTY.
- **`CompactCheck`**: the codec over every input of a small width (16
  bits).
  - One variable `x` is read both as a magnitude for `GetCompact` and as an
    nBits for `SetCompact`.
  - `Canonical` is a field-by-field reference definition of the form
    `GetCompact` writes.
- **`MidasCheck`** and **`MCMidasCheck`**: the decision core of Midas over
  every combination of its inputs:
  - the schedule offset `now - BlockHeightTime`;
  - the four averages;
  - the previous nBits;
  - the block type.

  The averages are free inputs. On a chain they come from untrusted timestamps,
  and `PowChain` shows the negative ones are reachable. `Desired`, `Factor`,
  `Limit` and `Result` are the code's own operators from `Pow`, applied to
  these inputs.
- **`MCPowChain`**: the model values: time deltas, the hash set, the garbage
  values, and the scaled ceilings with the headroom each run needs.

## Runs

| Run | Config | Expect | What it shows |
|---|---|---|---|
| eras | `MCPowChain_eras.cfg` | pass | See below. |
| hybrid | `MCPowChain_hybrid.cfg` | pass | See below. |
| orig_fallback | `MCPowChain_orig_fallback.cfg` | violation | `OrigFallsBackToCeiling` fails. |
| testnet | `MCPowChain_testnet.cfg` | pass | See below. |
| midas_divzero | `MCPowChain_midas_divzero.cfg` | violation | `NextWorkDefined` fails: Midas divides by zero. |
| hybrid_fallthrough | `MCPowChain_hybrid_fallthrough.cfg` | violation | `NextWorkDefined` fails: the hybrid PoS retarget has no return. |
| compact_codec | `CompactCheck.cfg` | pass | See below. |
| midas_core | `MCMidasCheck.cfg` | pass | See below. |
| midas_schedule | `MCMidasCheck_midas_schedule.cfg` | violation | `MidasDesiredTracksSchedule` fails. |
| midas_direction | `MCMidasCheck_midas_direction.cfg` | violation | `MidasCorrectsTowardDesired` fails. |
| orig_overflow | `MCPowChain_orig_overflow.cfg` | violation | `OrigStepMovesTowardSpacing` fails: the 256-bit product wraps. |
| dgw_on_schedule | `MCPowChain_dgw_on_schedule.cfg` | violation | `DGWOnScheduleKeepsTarget` fails: DGW drifts on schedule. |

**eras** (main network; Orig at heights 1-4, Midas at 5-6, DGW from 7, PoS
from height 3; windows of 2; heights up to 9; deltas -20, 64 and 700; about
29k states; ceilings 2^16 - 1).
- Every next PoW target passes `CheckProofOfWork` (`PowBlocksSolvable`).
- Every PoS block decodes positive and within `posLimit`
  (`StakeTargetsWithinPosLimit`).
- The legacy step moves toward the 64 s spacing
  (`OrigStepMovesTowardSpacing`). If the two same-type ancestors lie at least
  64 s apart, the new block is no harder than the older of them, up to the
  ceiling. If they lie 0 to 64 s apart, it is no easier. At exactly 64 s the
  target is kept (spec.md section 8).
- On a chain whose blocks all came exactly `nPosTargetSpacingMidas` apart,
  every Midas average equals that spacing, also while the chain is younger
  than 17 blocks and the window is padded with intervals before genesis
  (`MidasAveragesOnSchedule`, line 289).

**hybrid** (testnet; hybrid era from height 3; PoW windows of 3, so the
running average takes three targets; min-difficulty easing on;
deltas -20, 64, 300 and 7300, which reach both easing branches; heights up to
7; about 600k states; ceilings 2^12 - 1).
- The same two invariants hold.
- The chain refines `HybridTracks` under every interleaving of block types.

**testnet** (Orig, then Midas, then DGW with windows of 3; a PoS ceiling
2^12 - 1 below the PoW ceiling 2^16 - 1; PoS from height 10; heights up to
12; about 797k states).
- The full DGW window, with the running average over three targets,
  computes blocks 7 and 8.
- The testnet exception (lines 191-218) retargets PoW block 9 and PoS blocks
  10 and 11 against posLimit.
- PoW targets stay solvable and PoS targets stay within posLimit.

**compact_codec** checks all 65,536 16-bit inputs with 4-bit bytes. Three
properties hold:
- `CompactRoundTrip`: canonical nBits re-encode to themselves without flags
  (spec.md section 8).
- `EncodeTruncatesDown`: `GetCompact` output is canonical, never rounds up, and
  loses less than one part in 2^(2 * ByteBits - 1).
- `EncodeMonotone`: encoding preserves order.

Building the reference definition turned up two real edges of the encoding:
- 0x80 encodes as 0x02008000, with a zero top byte.
- 2^255 encodes with size 33, one past the width, and is not an overflow.

**midas_core** checks 98,304 input combinations. Averages that all equal the
desired interval return the previous nBits unchanged (spec.md section 8).

**Findings.**
- **orig_fallback**: genesis counts as a same-type ancestor (lines 421-429).
  The second PoS block is retargeted from the first PoS block's target, with
  the spacing measured from genesis, instead of falling back to the ceiling
  as spec.md 4.4 says it should.
- **midas_schedule**: the comment at lines 327-331 says the closer the tip
  is to the schedule, the closer the desired interval is to the nominal
  spacing. Two places break it:
  - Exactly on schedule (line 349) neither strict blend applies, and the
    interval is the fast one (57), where one second early gives 64. The
    reported trace pairs offset -640 (interval 70, 6 s off nominal) with the
    nearer offset 0 (57, 7 s off).
  - With offset 0 left out of the inputs, the check fails at line 339. The
    late-side blend divides by `nPosTargetSpacingMidas` where line 343
    divides by the timespan, so one second late gives 639 and 320 s late
    gives 605, about ten times the spacing.

- **midas_divzero**: the sum of the last 17 intervals is
  `t(tip) - t(tip-17)`. A timestamp `17 * 5 * nIntervalDesired` seconds ahead
  of one 17 blocks later makes line 383 divide by zero (about 5950 s with the
  trace's desired interval of 70).
  - In the trace, block 1 is 6980 s before genesis, followed by five
    on-schedule blocks.
  - spec.md section 7 says every retarget is total and never crashes.
- **hybrid_fallthrough**: with `POSPOWStartHeight < POSStartHeight`, a PoS
  block at height 4 (between the two) makes `HybridPoSPIVXDifficulty` fall off
  its end (line 143). spec.md section 9 flags this path.
- **midas_direction**: with `avgOf17 < -5 * nIntervalDesired`, the "too fast"
  normal adjustment gets a negative factor. Line 389 clamps it to 5000, which
  doubles the target instead of hardening it.
- **orig_overflow**: a code bug.
  - The legacy step clamps the spacing to 640 s only for PoS blocks (line 436).
    spec.md 4.4 clamps it for every block.
  - A PoW spacing is therefore unbounded, and `bnNew *= 9 * 64 + 2 * spacing`
    at line 447 keeps only the low 256 bits.
  - At the ceiling, a spacing in a window of about 350 s just past 2^19 s
    wraps the product to almost nothing. In the trace, a 526100 s pause
    takes the target from 255 to 31, eight times harder instead of easier.
  - The hybrid PoS step (line 136) and the PIVX PoS steps (184, 211) use the
    same `ExpRetarget` operator and the same unbounded spacing.
- **dgw_on_schedule**: the loop at lines 220-244 adds a time difference only
  from the second block read on. The window therefore spans `CountBlocks - 1`
  intervals, but line 250 divides by `CountBlocks` spacings.
  - A window of equal targets exactly on schedule hardens by (N - 1) / N per
    block: 23/24 with the code's 24, and 1/2 with the model's 2.
  - spec.md 4.4 compares the window's timespan with window_size x spacing.
  - spec.md 8 states the no-drift equilibrium for the legacy step; the
    window is expected to keep it too, and does not.

**Mutants.** Each property of a passing run has a mutant in `Pow` or `CompactTarget` that breaks
it:
- a dropped clamp in the exponential step;
- a dropped cap in Midas or in the easing;
- a missing `GetCompact`;
- a walker that ignores block type;
- swapped limits at line 166;
- an off-by-one shift in `SetCompact`;
- a Midas that recomputes on a neutral factor;
- Midas averages that add zero intervals before genesis;
- a legacy step whose older ancestor is searched from `pindexPrev` itself,
  so the measured spacing is zero.

**Bounds.**
- Windows of 2 or 3 instead of 24 keep every window path reachable within
  7-12 blocks, including:
  - too few blocks;
  - a full window;
  - a loop that leaves the era.

  The hybrid and testnet runs use 3, so that the running average
  `(avg * k + t) / (k + 1)` takes a step with k = 2. The hybrid run with
  windows of 3 and height 8 has 4.8M states and takes nearly four minutes,
  which is too long to keep.
- The deltas cover a backwards time, on schedule, and each clamp and easing
  threshold.
- Limits are equal in eras and hybrid. testnet separates the PoS ceiling from
  the PoW ceiling.
- Ceilings: 2^16 - 1 (eras, testnet PoW), 2^12 - 1 (hybrid, testnet PoS),
  2^19 - 1 (the Midas-only chain of midas_divzero), 2^8 - 1 (orig_overflow).
  See "Headroom" above.

**Fairness.** None is assumed. All checked properties are safety properties,
plus a refinement of a safety spec. Nothing in pow.cpp schedules anything.

## Not modelled

- A wrap of the hybrid PoS product (line 136) in a hybrid-era run: the
  hybrid run's ceiling leaves less headroom than the code. The same
  operator's wrap is shown at line 447.
- The `guiconstants.h` GUI constants.
- Block hashes beyond a small integer set.
- Header validation other than `CheckProofOfWork`.

## Plan for later work

1. Runs with `hybridPowLimit > powLimit` (line 97 against line 548). This
   needs a decision on which real parameters to mirror; chainparams.cpp is
   not under src/.
2. `fPowNoRetargeting` (regtest) and devnet `nMinimumDifficultyBlocks` runs.
3. A run with `POSStartHeight` inside the first DGW window and
   `posLimit < powLimit`: line 163 gives PoS blocks the PoW ceiling there.
   This is confirmed by hand with the testnet configuration and POSStartHeight 4.
4. A configuration with `nPosTargetSpacing` different from
   `nPosTargetSpacingMidas`. The padding before genesis (line 289) would then
   bias the early Midas averages, and `MidasAveragesOnSchedule` would report
   it.
