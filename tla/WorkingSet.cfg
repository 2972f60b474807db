CONSTANTS
    NPAGES = 4
    PGSIZE = 1
    CLOCKSIZE = 2
    UWRAP = 64
    Bytes <- ZeroByte
    SbrkArgs <- SmallSbrk
    Aligned <- AnyDump
    CachesTranslations = TRUE
SPECIFICATION Spec
INVARIANTS TypeOK PageAccounting Tracked 
PROPERTIES FaultServed
CHECK_DEADLOCK FALSE
