CONSTANTS
    NPROC = 3
    NCPU = 2
    MAXPID = 5
    KillPids <- AnyPid
SPECIFICATION Spec
INVARIANTS TableSound NoLostTick NoLostExit
