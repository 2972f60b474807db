CONSTANTS
    p1 = p1  p2 = p2  c0 = c0  c1 = c1  NoCpu = NoCpu
    Procs <- TwoProcs
    Cpus <- TwoCpus
    Cpu0 = c0
    INPUT_BUF = 2
    UWRAP = 4
    Keys <- AllKeys
    MAXIO = 2
    Calls <- Duties
    Faults <- Resident
SPECIFICATION Spec
INVARIANTS LockSound 
PROPERTIES  Edited
CHECK_DEADLOCK FALSE
