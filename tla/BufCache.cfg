CONSTANTS
    p1 = p1  p2 = p2  Nobody = Nobody  NoBlock = NoBlock
    Procs <- TwoProcs
    Blocks <- FourBlocks
    Data <- Bit
    Zero = 0
    Written <- OneBlock
    NBUF = 3
    MAXDIRTY = 1
    Outcomes <- Reliable
SPECIFICATION FairSpec
INVARIANTS CacheSound 
PROPERTIES Stored Served
