CONSTANTS
    NPAGES = 5
    PGSIZE = 2
    CLOCKSIZE = 1
    UWRAP = 64
    Bytes <- SomeBytes
    SbrkArgs <- SmallSbrk
    Aligned <- NoDump
    CachesTranslations = FALSE
SPECIFICATION Spec
INVARIANTS WorkingSetBound
 
CHECK_DEADLOCK FALSE
