---------------------------- MODULE MCStatistics ----------------------------
(***************************************************************************)
(* Small instances of the statistics for TLC.                              *)
(***************************************************************************)
EXTENDS StatisticsProps

\* A wrong bit in the temperature, in a reserved byte and in the CRC; a burst
\* over the boundary of two bytes.
MCNoise == {{}, {3}, {43}, {70}, 13..20}

Answers(Raw, Noise) == [raw : Raw, noise : Noise, line : {"answers"}]

MCFrames ==
    Answers({-880, -1}, {{}}) \cup Answers({401}, MCNoise)
        \cup [raw : {401}, noise : {{}}, line : {"nobody", "low"}]

\* The frames of the disagreement: a good read and a corrupted one.
TwoFrames == Answers({401}, {{}, {3}})
=============================================================================
