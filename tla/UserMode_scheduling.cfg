SPECIFICATION FairSpec
CONSTANTS
    Capacity = 3
    Images = 3
    kUserQuantumTicks = 2
    Steps = 1
INVARIANTS
    CpuConsistent
    ProcessesResume
PROPERTIES
    WholeQuantum
    ImplementsRoundRobin
    ReadyRuns
    HostReturns
