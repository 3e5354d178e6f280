---------------------------- MODULE MCTrainLoop ----------------------------
(* Small instances of TrainLoop for TLC.                                   *)
EXTENDS TrainLoop

CONSTANTS r0, r1, r2          \* three ranks

MCRanks      == {r0, r1, r2}
NoRanks      == {}
TwoDetectors == {r0, r1}      \* the detector of r2 did not start

NoSteps      == {}
SkippedSteps == {1, 2}
RampUpSteps  == {3}

AnyResult   == {"continue", "resume", "invalid"}
NoReruns    == {"continue"}

=============================================================================
