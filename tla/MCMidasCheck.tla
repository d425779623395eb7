---------------------------- MODULE MCMidasCheck ----------------------------
EXTENDS MidasCheck

\* On schedule, one second behind or ahead, half and a whole timespan
\* behind, far ahead.
MCOffsets == {0, -1, 1, -320, -640, 1000}
\* The desired intervals these offsets give (57, 64, 70), values around
\* them, zero, and averages of chains whose time ran backwards.
MCAvgs == {-400, -350, 0, 40, 57, 64, 70, 100}
\* A target that is not a multiple of 10000, and the ceiling.
MCBits == {GetCompact(123457), GetCompact(2^19 - 1)}
MCLimit == 2^19 - 1
=============================================================================
