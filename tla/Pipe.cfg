SPECIFICATION FairSpec
CONSTANTS
    p1 = p1  p2 = p2
    Procs <- TwoProcs  Bytes <- TwoBytes
    PIPESIZE = 2  Wrap = 4  MaxCount = 2
INVARIANTS PipeSound
PROPERTIES Fifo CallsEnd
CHECK_DEADLOCK FALSE
