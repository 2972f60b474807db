CONSTANTS
    NPAGES = 5
    PGSIZE = 2
    CLOCKSIZE = 1
    UWRAP = 64
    Bytes <- ZeroByte
    SbrkArgs <- SmallSbrk
    Aligned <- NoDump
    CachesTranslations = FALSE
SPECIFICATION Spec
PROPERTY AllOrNothing
CHECK_DEADLOCK FALSE
