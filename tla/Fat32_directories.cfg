SPECIFICATION Spec
CONSTANTS
    LastCluster = 5
    FatCount = 2
    SlotsPerCluster = 3
    Names = {a, b}
    Sizes = {0, 2}
    Operations = {"mkdir", "write_file", "remove", "move"}
    MaxFaults = 1
    MaxLosses = 0
SYMMETRY NameSymmetry
CONSTRAINT Followed
INVARIANTS
    VolumeSound
    MoveKeepsFile
    ReaderAgrees
PROPERTIES
    ImplementsFileStore
