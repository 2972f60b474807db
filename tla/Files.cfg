CONSTANTS
    p1 = p1  p2 = p2  Nobody = Nobody
    Procs <- TwoProcs
    Names <- TwoNames
    Workloads <- ThreeLoads
    NINODES = 3
    NFILE = 2
    NOFILE = 2
SPECIFICATION Spec
INVARIANTS RefsExact InodesSound LinksSound 
CHECK_DEADLOCK FALSE
