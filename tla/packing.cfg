SPECIFICATION Spec
CONSTANT Jobs <- MCJobs
CHECK_DEADLOCK FALSE
INVARIANT
    PackedFaithfully
    NoTwoBinsMerge
