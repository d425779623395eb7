----------------------------- MODULE MidasCheck -----------------------------
(***************************************************************************)
(* The decision core of GetNextWorkRequiredMidas (pow.cpp:316-406) checked *)
(* over every combination of its inputs from small sets: the distance of  *)
(* the tip's time from the schedule (now - BlockHeightTime), the four      *)
(* averages avgRecentTimestamps returns, and the previous block's nBits.   *)
(* Averages are free inputs here: on a chain they follow from timestamps, *)
(* which spec.md section 2 calls untrusted and non-monotonic, so any      *)
(* value is reachable (PowChain reaches the negative ones).               *)
(***************************************************************************)
EXTENDS Pow

CONSTANTS
    Offsets,   \* now - BlockHeightTime
    Avgs,      \* values each of avgOf5, avgOf7, avgOf9, avgOf17 may take
    Bits,      \* pindexLast->nBits
    Schedule   \* BlockHeightTime

VARIABLE in
vars == <<in>>

Init == in \in [offset : Offsets, avg : [{5, 7, 9, 17} -> Avgs], bits : Bits, stake : BOOLEAN]
Next == UNCHANGED vars
Spec == Init /\ [][Next]_vars

\* The desired interval at a tip o seconds from the schedule, and its
\* distance from the nominal spacing.
DesiredAt(o) == MidasIntervalDesired(Schedule + o, Schedule)
Desired == DesiredAt(in.offset)
FromNominal(d) == IF d >= nPosTargetSpacingMidas THEN d - nPosTargetSpacingMidas
                                                ELSE nPosTargetSpacingMidas - d

Factor  == MidasDifficultyFactor(Desired, in.avg)
Limit   == IF in.stake THEN posLimit ELSE powLimit
Result  == IF Factor = DivByZero THEN Undefined ELSE MidasApply(Decode(in.bits), Factor, Limit)

(***************************************************************************)
(* spec.md section 8, Midas: when all four averages equal the desired      *)
(* interval the previous nBits is returned unchanged, "not a recomputed    *)
(* equivalent, to avoid rounding drift" (the difficultyfactor == 10000     *)
(* early return, pow.cpp:396-397, reached only if neither the emergency    *)
(* nor the strict normal comparisons fire).                                *)
(***************************************************************************)
MidasNeutralNoOp ==
    (\A n \in {5, 7, 9, 17} : in.avg[n] = Desired) => Result = in.bits

(***************************************************************************)
(* The comment at pow.cpp:327-331: "The closer we are to being exactly on  *)
(* schedule the closer our selected interval will be to our nominal        *)
(* interval".  Of two tips on the same side of the schedule, the nearer    *)
(* one never gets a desired interval further from nPosTargetSpacingMidas.  *)
(* It fails if a blend is misweighted (line 339) or if the tip exactly on  *)
(* schedule falls into a branch meant for far-off tips (line 349).         *)
(***************************************************************************)
MidasDesiredTracksSchedule ==
    \A o \in Offsets :
        o * in.offset >= 0 /\ o * o <= in.offset * in.offset
            => FromNominal(DesiredAt(o)) <= FromNominal(Desired)

(***************************************************************************)
(* spec.md 4.4, Midas: the normal adjustment is "a gentler 1/6-weighted    *)
(* correction toward the desired interval".  When blocks come too fast     *)
(* (the two longest averages below the desired interval, no emergency),    *)
(* the factor must not make the target easier: factor >= 10000, and it is *)
(* defined (pow.cpp:382-383 divide by avgOf17 + 5 * nIntervalDesired).     *)
(***************************************************************************)
MidasCorrectsTowardDesired ==
    LET d == Desired
        a == in.avg
    IN  /\ ~(a[5] < (d * 2) \div 3 /\ a[9] < (d * 2) \div 3 /\ a[17] < (d * 2) \div 3)
        /\ ~(a[5] > (d * 3) \div 2 /\ a[7] > (d * 3) \div 2 /\ a[9] > (d * 3) \div 2)
        /\ (a[5] < d \/ a[7] < d) /\ a[9] < d /\ a[17] < d
        => Factor >= 10000
=============================================================================
