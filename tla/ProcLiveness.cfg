CONSTANTS
    NPROC = 3
    NCPU = 1
    MAXPID = 4
    KillPids <- LivePids
SPECIFICATION FairSpec
PROPERTIES KilledExits ZombiesReaped SleepEnds
