SPECIFICATION Spec
CONSTANT Jobs <- MCJobs
CHECK_DEADLOCK FALSE
INVARIANT
    TypeOK
    ShardsComplete
    RoundTrip
    NoHang
