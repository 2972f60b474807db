SPECIFICATION FairSpec
CONSTANTS
    p1 = p1  p2 = p2  b1 = b1  b2 = b2  b3 = b3  NoBlock = NoBlock
    InodeStart <- FirstBlock
    Ops <- TwoOps  Blocks <- ThreeBlocks  Values <- TwoValues
    MAXOPBLOCKS = 2  LOGSIZE = 4  NLOG = 4
 
PROPERTIES Atomic BeginReturns
