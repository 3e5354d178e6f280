SPECIFICATION Spec
CONSTANT Jobs <- SequentialJobs
CHECK_DEADLOCK FALSE
INVARIANT ShardsComplete
